---- MODULE Spec2Model ----
(***************************************************************************)
(* A model of the R.E.M. proof kernel (src/Rem): terms and their           *)
(* structural operations, the fresh-name counter, the class registry that  *)
(* gates instantiation, and the rule constructors of the typing,           *)
(* reduction and subtyping judgments.                                      *)
(*                                                                         *)
(* Every object is a record whose `cls` is the name of its Python class;   *)
(* the other fields of a term are its sub-terms, those of a proof object   *)
(* the components of its conclusion.  A constructor is an operator         *)
(* returning [ok |-> TRUE, obj |-> ...], or [ok |-> FALSE] when it raises. *)
(***************************************************************************)
EXTENDS Integers, Sequences, FiniteSets, TLC

VARIABLES
    count,      \* Var.count, the process-wide fresh-name counter
    passed,     \* history: every variable of every term passed to fresh_var so far
    arg,        \* the terms the client holds as arguments of the term operations
    store,      \* the proof objects the client has built so far
    last        \* the last operation the client performed, with its outcome

vars == <<count, passed, arg, store, last>>

-----------------------------------------------------------------------------
(* Bounds of the model *)

MaxCount == 3        \* Var.count is explored up to this value
MaxUniverse == 3     \* universe indices offered to the constructors go up to this
MaxStore == 6        \* number of proof objects the client keeps
MaxTuple == 2        \* length of the tuples of terms passed to fresh_var
MaxChain == 2        \* number of reduction or subtyping proofs the client keeps

-----------------------------------------------------------------------------
(* Terms: src/Rem/coc/term.py *)

SProp == [cls |-> "SProp"]
Prop == [cls |-> "Prop"]
Set == [cls |-> "Set"]
Type_i(i) == [cls |-> "Type_i", i |-> i]
Var(x) == [cls |-> "Var", x |-> x]
Const(c) == [cls |-> "Const", c |-> c]
Prod(x, T, U) == [cls |-> "Prod", x |-> x, T |-> T, U |-> U]
Abstract(x, T, u) == [cls |-> "Abstract", x |-> x, T |-> T, u |-> u]
Apply(t, u) == [cls |-> "Apply", t |-> t, u |-> u]
Let_in(x, t, T, u) == [cls |-> "Let_in", x |-> x, t |-> t, T |-> T, u |-> u]

SortClasses == {"SProp", "Prop", "Set", "Type_i"}

\* isinstance(t, Sort)
IsSortTerm(t) == t.cls \in SortClasses

\* __eq__ of the term classes: purely syntactical equivalence
RECURSIVE eq(_, _)
eq(self, other) ==
    CASE self.cls \in {"SProp", "Prop", "Set"} -> other.cls = self.cls
      [] self.cls = "Type_i" -> other.cls = "Type_i" /\ self.i = other.i
      [] self.cls = "Var" -> other.cls = "Var" /\ self.x = other.x
      [] self.cls = "Const" -> other.cls = "Const" /\ self.c = other.c
      [] self.cls = "Prod" ->
            /\ other.cls = "Prod"
            /\ eq(self.x, other.x) /\ eq(self.T, other.T) /\ eq(self.U, other.U)
      [] self.cls = "Abstract" ->
            /\ other.cls = "Abstract"
            /\ eq(self.x, other.x) /\ eq(self.T, other.T) /\ eq(self.u, other.u)
      [] self.cls = "Apply" ->
            /\ other.cls = "Apply"
            /\ eq(self.t, other.t) /\ eq(self.u, other.u)
      [] self.cls = "Let_in" ->
            /\ other.cls = "Let_in"
            /\ eq(self.x, other.x) /\ eq(self.t, other.t)
            /\ eq(self.T, other.T) /\ eq(self.u, other.u)

RECURSIVE all_var(_)
all_var(self) ==
    CASE IsSortTerm(self) -> {}
      [] self.cls = "Var" -> {self}
      [] self.cls = "Const" -> {}
      [] self.cls = "Prod" -> all_var(self.T) \cup all_var(self.U) \cup {self.x}
      [] self.cls = "Abstract" -> all_var(self.T) \cup all_var(self.u) \cup {self.x}
      [] self.cls = "Apply" -> all_var(self.t) \cup all_var(self.u)
      [] self.cls = "Let_in" ->
            all_var(self.t) \cup all_var(self.T) \cup all_var(self.u) \cup {self.x}

RECURSIVE free_var(_)
free_var(self) ==
    CASE IsSortTerm(self) -> {}
      [] self.cls = "Var" -> {self}
      [] self.cls = "Const" -> {}
      [] self.cls = "Prod" -> (free_var(self.T) \cup free_var(self.U)) \ {self.x}
      [] self.cls = "Abstract" -> (free_var(self.T) \cup free_var(self.u)) \ {self.x}
      [] self.cls = "Apply" -> free_var(self.t) \cup free_var(self.u)
      [] self.cls = "Let_in" ->
            (free_var(self.t) \cup free_var(self.T) \cup free_var(self.u)) \ {self.x}

RECURSIVE substitute(_, _, _)

\* Prod.substitute without the test of the bound variable
Prod_substitute_noshadow(self, x, t) ==
    Prod(self.x, substitute(self.T, x, t), substitute(self.U, x, t))

\* Prod.substitute
Prod_substitute(self, x, t) ==
    IF ~eq(x, self.x)
    THEN Prod(self.x, substitute(self.T, x, t), substitute(self.U, x, t))
    ELSE self

\* Abstract.substitute (it builds a Prod)
Abstract_substitute(self, x, t) ==
    IF ~eq(x, self.x)
    THEN Prod(self.x, substitute(self.T, x, t), substitute(self.u, x, t))
    ELSE self

\* Let_in.substitute
Let_in_substitute(self, x, t) ==
    IF ~eq(x, self.x)
    THEN Let_in(self.x, substitute(self.t, x, t), substitute(self.T, x, t),
                substitute(self.u, x, t))
    ELSE self

substitute(self, x, t) ==
    CASE IsSortTerm(self) -> self
      [] self.cls = "Var" -> IF eq(self, x) THEN t ELSE self
      [] self.cls = "Const" -> self
      [] self.cls = "Prod" -> Prod_substitute(self, x, t)
      [] self.cls = "Abstract" -> Abstract_substitute(self, x, t)
      [] self.cls = "Apply" -> Apply(substitute(self.t, x, t), substitute(self.u, x, t))
      [] self.cls = "Let_in" -> Let_in_substitute(self, x, t)

\* replace_bound of Prod, Abstract and Let_in
replace_bound(self, var) ==
    CASE self.cls = "Prod" ->
            Prod(var, substitute(self.T, self.x, var), substitute(self.U, self.x, var))
      [] self.cls = "Abstract" ->
            Abstract(var, substitute(self.T, self.x, var), substitute(self.u, self.x, var))
      [] self.cls = "Let_in" ->
            Let_in(var, substitute(self.t, self.x, var), substitute(self.T, self.x, var),
                   substitute(self.u, self.x, var))

\* f"#{Var.count}"
FreshName(n) == "#" \o ToString(n)

\* the union of all_var over a tuple of terms (the loop filling var_set)
var_set_of(terms) == UNION {all_var(terms[k]) : k \in DOMAIN terms}

RECURSIVE fresh_count(_, _)

\* fresh_var without its while loop
fresh_count_noloop(var_set, cnt) == cnt

\* the while loop of fresh_var: the first n >= cnt with Var("#n") not in var_set
fresh_count(var_set, cnt) ==
    IF Var(FreshName(cnt)) \in var_set
    THEN fresh_count(var_set, cnt + 1)
    ELSE cnt

\* fresh_var returning the name of the counter value it started from
fresh_var_stale(terms, cnt) ==
    [var |-> Var(FreshName(cnt)), count |-> fresh_count(var_set_of(terms), cnt)]

\* Var.fresh_var: the variable returned and the value it leaves in Var.count
fresh_var(terms, cnt) ==
    LET n == fresh_count(var_set_of(terms), cnt)
    IN  [var |-> Var(FreshName(n)), count |-> n]

\* alpha_convertible.  It calls fresh_var, so it reads and advances Var.count:
\* the result carries the value returned (res), the counter it leaves (count)
\* and the variables of the terms it passed to fresh_var (seen).  `and`
\* short-circuits: the right operand is evaluated only if the left is true.
RECURSIVE alpha_convertible(_, _, _)
alpha_and(r1, a, b) ==
    IF ~r1.res THEN r1
    ELSE LET r2 == alpha_convertible(a, b, r1.count)
         IN  [res |-> r2.res, count |-> r2.count, seen |-> r1.seen \cup r2.seen]

alpha_convertible(self, other, cnt) ==
    CASE self.cls \in SortClasses \cup {"Var", "Const"} ->
            [res |-> eq(self, other), count |-> cnt, seen |-> {}]
      [] self.cls = "Apply" ->
            IF other.cls # "Apply" THEN [res |-> FALSE, count |-> cnt, seen |-> {}]
            ELSE alpha_and(alpha_convertible(self.t, other.t, cnt), self.u, other.u)
      [] self.cls = "Prod" ->
            IF other.cls # "Prod" THEN [res |-> FALSE, count |-> cnt, seen |-> {}]
            ELSE LET f == fresh_var(<<self, other>>, cnt)
                     self_rep == replace_bound(self, f.var)
                     other_rep == replace_bound(other, f.var)
                     r0 == [res |-> TRUE, count |-> f.count,
                            seen |-> var_set_of(<<self, other>>)]
                 IN  alpha_and(alpha_and(r0, self_rep.T, other_rep.T),
                               self_rep.U, other_rep.U)
      [] self.cls = "Abstract" ->
            IF other.cls # "Abstract" THEN [res |-> FALSE, count |-> cnt, seen |-> {}]
            ELSE LET f == fresh_var(<<self, other>>, cnt)
                     self_rep == replace_bound(self, f.var)
                     other_rep == replace_bound(other, f.var)
                     r0 == [res |-> TRUE, count |-> f.count,
                            seen |-> var_set_of(<<self, other>>)]
                 IN  alpha_and(alpha_and(r0, self_rep.T, other_rep.T),
                               self_rep.u, other_rep.u)
      [] self.cls = "Let_in" ->
            IF other.cls # "Let_in" THEN [res |-> FALSE, count |-> cnt, seen |-> {}]
            ELSE LET f == fresh_var(<<self, other>>, cnt)
                     self_rep == replace_bound(self, f.var)
                     other_rep == replace_bound(other, f.var)
                     r0 == [res |-> TRUE, count |-> f.count,
                            seen |-> var_set_of(<<self, other>>)]
                 IN  alpha_and(alpha_and(alpha_and(r0, self_rep.t, other_rep.t),
                                         self_rep.T, other_rep.T),
                               self.u, other_rep.u)

-----------------------------------------------------------------------------
(* The terms the client supplies *)

x == Var("x")
y == Var("y")

\* variables named like the fresh names, which a caller may use as well
HashVars == {Var(FreshName(n)) : n \in 0..(MaxCount - 1)}

Atoms == {Set, x, y, Var(FreshName(0))}

BinderVars == {x, y}

\* one constructor over atoms
Terms1 ==
    {Prod(v, a, b) : v \in BinderVars, a \in Atoms, b \in Atoms}
    \cup {Abstract(v, a, b) : v \in BinderVars, a \in Atoms, b \in Atoms}
    \cup {Let_in(v, a, Set, b) : v \in BinderVars, a \in Atoms, b \in Atoms}
    \cup {Apply(a, b) : a \in Atoms, b \in Atoms}

\* domains of the binders of depth two
Domains == {Set, x, Abstract(x, Set, x)}

Terms2 ==
    {Prod(v, a, b) : v \in BinderVars, a \in Domains, b \in Terms1}
    \cup {Abstract(v, a, b) : v \in BinderVars, a \in Domains, b \in Terms1}
    \cup {Let_in(v, a, Set, b) : v \in BinderVars, a \in Domains, b \in Terms1}

TermsIn == Atoms \cup Terms1 \cup Terms2

\* the terms compared with a term a: a itself, a sort, and, for a binder, the
\* same binder rebuilt over another bound variable as a caller renaming it does
Renamed(a, v) ==
    CASE a.cls = "Prod" -> Prod(v, a.T, substitute(a.U, a.x, v))
      [] a.cls = "Abstract" -> Abstract(v, a.T, substitute(a.u, a.x, v))
      [] a.cls = "Let_in" -> Let_in(v, a.t, a.T, substitute(a.u, a.x, v))
      [] OTHER -> a

OthersOf(a) == {a, Set} \cup {Renamed(a, v) : v \in BinderVars}

\* replacement terms of substitute
Replacements == {Set, y, Apply(x, y)}

\* tuples of terms passed to fresh_var
FreshTermsIn ==
    HashVars \cup {x, Set}
    \cup {Prod(Var(FreshName(0)), Set, Var(FreshName(1))),
          Let_in(Var(FreshName(1)), x, Set, x)}

Tuples(S, n) == UNION {[1..k -> S] : k \in 0..n}

\* pairs passed to alpha_convertible between fresh_var calls
AlphaPairs ==
    {<<a, b>> : a, b \in {Prod(x, Set, x), Prod(y, Set, y),
                          Abstract(Var(FreshName(0)), Set, Var(FreshName(1)))}}

None == [op |-> "none"]

-----------------------------------------------------------------------------
(* The fresh-name counter under sequences of calls *)

InitFresh ==
    /\ count = 0
    /\ passed = {}
    /\ arg = None
    /\ store = {}
    /\ last = None

\* a call Var.fresh_var(terms)
FreshVarCall(terms) ==
    LET r == fresh_var(terms, count)
    IN  /\ r.count <= MaxCount
        /\ count' = r.count
        /\ passed' = passed \cup var_set_of(terms)
        /\ last' = [op |-> "fresh_var", terms |-> terms, ret |-> r.var,
                    before |-> count, earlier |-> passed]
        /\ UNCHANGED <<arg, store>>

\* a call self.alpha_convertible(other), which calls fresh_var inside
AlphaCall(self, other) ==
    LET r == alpha_convertible(self, other, count)
    IN  /\ r.count <= MaxCount
        /\ count' = r.count
        /\ passed' = passed \cup r.seen
        /\ last' = [op |-> "alpha_convertible", self |-> self, other |-> other,
                    ret |-> r.res, before |-> count]
        /\ UNCHANGED <<arg, store>>

NextFresh ==
    \/ \E terms \in Tuples(FreshTermsIn, MaxTuple) : FreshVarCall(terms)
    \/ \E p \in AlphaPairs : AlphaCall(p[1], p[2])

SpecFresh == InitFresh /\ [][NextFresh]_vars

-----------------------------------------------------------------------------
(* The term operations on the terms the client holds *)

\* the arguments the client holds: a pair to compare, or a substitution
PairArgs ==
    UNION {{[kind |-> "pair", self |-> a, other |-> b] : b \in OthersOf(a)}
           : a \in TermsIn}

SubstArgs ==
    {[kind |-> "subst", self |-> a, x |-> v, t |-> t] :
        a \in TermsIn, v \in BinderVars, t \in Replacements}

\* Var.count may hold any value when a term operation is called: every value
\* n is left by fresh_var on a tuple holding the variables #0 .. #(n-1)
InitTerm ==
    /\ count \in 0..MaxCount
    /\ passed = {}
    /\ arg \in PairArgs \cup SubstArgs
    /\ store = {}
    /\ last = None

\* self == other
EqCall ==
    /\ arg.kind = "pair" /\ last = None
    /\ last' = [op |-> "eq", ret |-> eq(arg.self, arg.other)]
    /\ UNCHANGED <<count, passed, arg, store>>

\* self.alpha_convertible(other)
AlphaConvertibleCall ==
    /\ arg.kind = "pair" /\ last = None
    /\ LET r == alpha_convertible(arg.self, arg.other, count)
       IN  /\ count' = r.count
           /\ passed' = passed \cup r.seen
           /\ last' = [op |-> "alpha_convertible", ret |-> r.res]
    /\ UNCHANGED <<arg, store>>

\* self.substitute(x, t)
SubstituteCall ==
    /\ arg.kind = "subst" /\ last = None
    /\ last' = [op |-> "substitute", ret |-> substitute(arg.self, arg.x, arg.t)]
    /\ UNCHANGED <<count, passed, arg, store>>

NextTerm ==
    \/ EqCall
    \/ AlphaConvertibleCall
    \/ SubstituteCall

SpecTerm == InitTerm /\ [][NextTerm]_vars

-----------------------------------------------------------------------------
(* The class registry: src/Rem/rem.py and the class statements of src/Rem/coc *)

\* the base class of every class deriving from RemTerm
Base ==
    [RemProof |-> "RemTerm", Term |-> "RemTerm", Sort |-> "Term",
     SProp |-> "Sort", Prop |-> "Sort", Set |-> "Sort", Type_i |-> "Sort",
     Var |-> "Term", Const |-> "Term", BoundTerm |-> "Term",
     Prod |-> "BoundTerm", Abstract |-> "BoundTerm", Apply |-> "Term",
     Let_in |-> "BoundTerm", Rem_IsSort |-> "RemProof",
     LocalDec |-> "RemTerm", LocalTyping |-> "LocalDec", LocalDef |-> "LocalDec",
     Context |-> "RemTerm", Rem_Cont_Not_Contain_Var |-> "RemProof",
     Rem_Cont_Contain_Var |-> "RemProof", Rem_Cont_Contain_Typing |-> "RemProof",
     Rem_Cont_Contain_Def |-> "RemProof",
     GlobalDec |-> "RemTerm", GlobalTyping |-> "GlobalDec", GlobalDef |-> "GlobalDec",
     Environment |-> "RemTerm", Rem_Env_Not_Contain_Const |-> "RemProof",
     Rem_Env_Contain_Const |-> "RemProof", Rem_Env_Contain_Typing |-> "RemProof",
     Rem_Env_Contain_Def |-> "RemProof",
     Rem_WF |-> "RemProof", Rem_WT |-> "RemProof",
     Rem_W_Empty |-> "Rem_WF", Rem_W_Local_Assum |-> "Rem_WF",
     Rem_W_Local_Def |-> "Rem_WF", Rem_W_Global_Assum |-> "Rem_WF",
     Rem_W_Global_Def |-> "Rem_WF",
     Rem_Ax_SProp |-> "Rem_WT", Rem_Ax_Prop |-> "Rem_WT", Rem_Ax_Set |-> "Rem_WT",
     Rem_Ax_Type |-> "Rem_WT", Rem_Var |-> "Rem_WT", Rem_Const |-> "Rem_WT",
     Rem_Prod_SProp |-> "Rem_WT", Rem_Prod_Prop |-> "Rem_WT",
     Rem_Prod_Set |-> "Rem_WT", Rem_Prod_Type |-> "Rem_WT", Rem_Lam |-> "Rem_WT",
     Rem_App |-> "Rem_WT", Rem_Let |-> "Rem_WT", Rem_Conv |-> "Rem_WT",
     Rem_reduction |-> "RemProof", Rem_reduction_trans |-> "Rem_reduction",
     Rem_beta_reduction |-> "Rem_reduction", Rem_delta_reduction |-> "Rem_reduction",
     Rem_Delta_reduction |-> "Rem_reduction", Rem_zeta_reduction |-> "Rem_reduction",
     Rem_eta_conversion |-> "RemProof", Rem_convertible |-> "RemProof",
     Rem_subtyping |-> "RemProof", Rem_subtyping_trans |-> "Rem_subtyping",
     Rem_subtyping_convert |-> "Rem_subtyping",
     Rem_subtyping_universe |-> "Rem_subtyping",
     Rem_subtyping_Set |-> "Rem_subtyping", Rem_subtyping_Prop |-> "Rem_subtyping",
     Rem_subtyping_lam |-> "Rem_subtyping"]

\* the classes decorated with @Rem_term only
Rem_term ==
    {"RemTerm", "RemProof", "Term", "Sort", "BoundTerm", "LocalDec", "GlobalDec",
     "Rem_WF", "Rem_WT", "Rem_reduction", "Rem_subtyping", "Rem_subtyping_trans"}

\* the classes decorated with @concrete_Rem_term, which sets their __new__
concrete_Rem_term == (DOMAIN Base) \ Rem_term

RECURSIVE issubclass(_, _)
issubclass(cls, target) ==
    \/ cls = target
    \/ cls # "RemTerm" /\ issubclass(Base[cls], target)

RECURSIVE new_raises(_)

\* a registry in which no __new__ raises
new_never_raises(cls) == FALSE

\* cls(...): the __new__ found first along the bases of cls is the one set by
\* concrete_Rem_term, or RemTerm.__new__, which raises
new_raises(cls) ==
    IF cls \in concrete_Rem_term THEN FALSE
    ELSE IF cls = "RemTerm" THEN TRUE
    ELSE new_raises(Base[cls])

\* the outcome of a constructor
Raise == [ok |-> FALSE]
Ok(obj) == [ok |-> TRUE, obj |-> obj]

\* Rem_type_check passes: isinstance(obj, T)
Rem_type_check(obj, T) == issubclass(obj.cls, T)

\* Rem_other_check passes
Rem_other_check(expr) == expr

-----------------------------------------------------------------------------
(* Declarations, contexts and environments: context.py, environment.py *)

LocalTyping(v, T) == [cls |-> "LocalTyping", x |-> v, T |-> T]
LocalDef(v, t, T) == [cls |-> "LocalDef", x |-> v, t |-> t, T |-> T]
GlobalTyping(c, T) == [cls |-> "GlobalTyping", c |-> c, T |-> T]
GlobalDef(c, t, T) == [cls |-> "GlobalDef", c |-> c, t |-> t, T |-> T]
Context(ls) == [cls |-> "Context", ls |-> ls]
Environment(ls) == [cls |-> "Environment", ls |-> ls]

\* a == b, dispatched on the class of a; a class without __eq__ compares by
\* identity
RECURSIVE py_eq(_, _)
py_eq(a, b) ==
    CASE issubclass(a.cls, "Term") -> eq(a, b)
      [] a.cls = "LocalTyping" ->
            b.cls = "LocalTyping" /\ py_eq(a.x, b.x) /\ py_eq(a.T, b.T)
      [] a.cls = "LocalDef" ->
            b.cls = "LocalDef" /\ py_eq(a.x, b.x) /\ py_eq(a.t, b.t) /\ py_eq(a.T, b.T)
      [] a.cls = "GlobalTyping" ->
            b.cls = "GlobalTyping" /\ py_eq(a.c, b.c) /\ py_eq(a.T, b.T)
      [] a.cls = "GlobalDef" ->
            b.cls = "GlobalDef" /\ py_eq(a.c, b.c) /\ py_eq(a.t, b.t) /\ py_eq(a.T, b.T)
      [] a.cls \in {"Context", "Environment"} ->
            /\ b.cls = a.cls
            /\ Len(a.ls) = Len(b.ls)
            /\ \A k \in DOMAIN a.ls : py_eq(a.ls[k], b.ls[k])
      [] OTHER -> a = b

\* a check that never raises
Rem_consistency_check_off(a, b) == TRUE

\* Rem_consistency_check passes: it raises if a != b
Rem_consistency_check(a, b) == py_eq(a, b)

is_empty(Gamma) == Len(Gamma.ls) = 0

\* a push that puts the declaration in front
push_front(self, dec) == [cls |-> self.cls, ls |-> <<dec>> \o self.ls]

\* Context.push and Environment.push: a new value, self is not assigned
push(self, dec) == [cls |-> self.cls, ls |-> Append(self.ls, dec)]

\* Context.pop on a context that is not empty: the context before, and the
\* declaration popped
pop(self) ==
    [Gamma |-> Context(SubSeq(self.ls, 1, Len(self.ls) - 1)), dec |-> self.ls[Len(self.ls)]]

\* Rem_IsSort(s)
Rem_IsSort(s) ==
    IF new_raises("Rem_IsSort") \/ ~Rem_type_check(s, "Sort") THEN Raise
    ELSE Ok([cls |-> "Rem_IsSort", s |-> s])

\* a proof of x not in Gamma that does not look at the declarations of Gamma
Rem_Cont_Not_Contain_Var_unchecked(v, Gamma) ==
    IF \/ new_raises("Rem_Cont_Not_Contain_Var")
       \/ ~Rem_type_check(v, "Var")
       \/ ~Rem_type_check(Gamma, "Context")
    THEN Raise
    ELSE Ok([cls |-> "Rem_Cont_Not_Contain_Var", x |-> v, Gamma |-> Gamma])

\* Rem_Cont_Not_Contain_Var(x, Gamma)
Rem_Cont_Not_Contain_Var(v, Gamma) ==
    IF \/ new_raises("Rem_Cont_Not_Contain_Var")
       \/ ~Rem_type_check(v, "Var")
       \/ ~Rem_type_check(Gamma, "Context")
       \/ \E k \in DOMAIN Gamma.ls : ~Rem_other_check(~py_eq(Gamma.ls[k].x, v))
    THEN Raise
    ELSE Ok([cls |-> "Rem_Cont_Not_Contain_Var", x |-> v, Gamma |-> Gamma])

\* a lookup that finds assumptions only
Rem_Cont_Contain_Typing_assum_only(x_typing, Gamma) ==
    IF \/ new_raises("Rem_Cont_Contain_Typing")
       \/ ~Rem_type_check(x_typing, "LocalTyping")
       \/ ~Rem_type_check(Gamma, "Context")
       \/ ~Rem_other_check(\E k \in DOMAIN Gamma.ls : py_eq(Gamma.ls[k], x_typing))
    THEN Raise
    ELSE Ok([cls |-> "Rem_Cont_Contain_Typing", x_typing |-> x_typing, Gamma |-> Gamma])

\* Rem_Cont_Contain_Typing(x_typing, Gamma): a definition in Gamma gives the
\* typing of its variable as well
Rem_Cont_Contain_Typing(x_typing, Gamma) ==
    IF \/ new_raises("Rem_Cont_Contain_Typing")
       \/ ~Rem_type_check(x_typing, "LocalTyping")
       \/ ~Rem_type_check(Gamma, "Context")
       \/ ~Rem_other_check(
             \E k \in DOMAIN Gamma.ls :
                IF Gamma.ls[k].cls = "LocalTyping" THEN py_eq(Gamma.ls[k], x_typing)
                ELSE py_eq(Gamma.ls[k].x, x_typing.x) /\ py_eq(Gamma.ls[k].T, x_typing.T))
    THEN Raise
    ELSE Ok([cls |-> "Rem_Cont_Contain_Typing", x_typing |-> x_typing, Gamma |-> Gamma])

\* Rem_Env_Not_Contain_Const(c, E)
Rem_Env_Not_Contain_Const(c, E) ==
    IF \/ new_raises("Rem_Env_Not_Contain_Const")
       \/ ~Rem_type_check(c, "Const")
       \/ ~Rem_type_check(E, "Environment")
       \/ \E k \in DOMAIN E.ls : ~Rem_other_check(~py_eq(E.ls[k].c, c))
    THEN Raise
    ELSE Ok([cls |-> "Rem_Env_Not_Contain_Const", c |-> c, E |-> E])

-----------------------------------------------------------------------------
(* Well-formedness and typing rules: src/Rem/coc/typing_rule.py *)

\* Rem_WF.__init__ and Rem_WT.__init__, run by the rule cls as super().__init__
Rem_WF(cls, E, Gamma) == [cls |-> cls, E |-> E, Gamma |-> Gamma]
Rem_WT(cls, E, Gamma, t, T) == [cls |-> cls, E |-> E, Gamma |-> Gamma, t |-> t, T |-> T]

Rem_W_Empty ==
    IF new_raises("Rem_W_Empty") THEN Raise
    ELSE Ok(Rem_WF("Rem_W_Empty", Environment(<<>>), Context(<<>>)))

\* an assumption of the type of wt instead of its term
Rem_W_Local_Assum_of_type(wt, s_sort, x_notin_Gamma) ==
    IF \/ new_raises("Rem_W_Local_Assum")
       \/ ~Rem_type_check(wt, "Rem_WT")
       \/ ~Rem_type_check(s_sort, "Rem_IsSort")
       \/ ~Rem_type_check(x_notin_Gamma, "Rem_Cont_Not_Contain_Var")
       \/ ~Rem_consistency_check(wt.T, s_sort.s)
       \/ ~Rem_consistency_check(wt.Gamma, x_notin_Gamma.Gamma)
    THEN Raise
    ELSE Ok(Rem_WF("Rem_W_Local_Assum", wt.E,
                   push(x_notin_Gamma.Gamma, LocalTyping(x_notin_Gamma.x, wt.T))))

Rem_W_Local_Assum(wt, s_sort, x_notin_Gamma) ==
    IF \/ new_raises("Rem_W_Local_Assum")
       \/ ~Rem_type_check(wt, "Rem_WT")
       \/ ~Rem_type_check(s_sort, "Rem_IsSort")
       \/ ~Rem_type_check(x_notin_Gamma, "Rem_Cont_Not_Contain_Var")
       \/ ~Rem_consistency_check(wt.T, s_sort.s)
       \/ ~Rem_consistency_check(wt.Gamma, x_notin_Gamma.Gamma)
    THEN Raise
    ELSE Ok(Rem_WF("Rem_W_Local_Assum", wt.E,
                   push(x_notin_Gamma.Gamma, LocalTyping(x_notin_Gamma.x, wt.t))))

Rem_W_Global_Def(wt, c_notin_E) ==
    IF \/ new_raises("Rem_W_Global_Def")
       \/ ~Rem_type_check(wt, "Rem_WT")
       \/ ~Rem_type_check(c_notin_E, "Rem_Env_Not_Contain_Const")
       \/ ~Rem_other_check(is_empty(wt.Gamma))
       \/ ~Rem_consistency_check(wt.E, c_notin_E.E)
    THEN Raise
    ELSE Ok(Rem_WF("Rem_W_Global_Def", push(wt.E, GlobalDef(c_notin_E.c, wt.t, wt.T)),
                   Context(<<>>)))

Rem_Ax_Set(wf) ==
    IF new_raises("Rem_Ax_Set") \/ ~Rem_type_check(wf, "Rem_WF") THEN Raise
    ELSE Ok(Rem_WT("Rem_Ax_Set", wf.E, wf.Gamma, Set, Type_i(1)))

Rem_Var(wf, x_dec_in_Gamma) ==
    IF \/ new_raises("Rem_Var")
       \/ ~Rem_type_check(wf, "Rem_WF")
       \/ ~Rem_type_check(x_dec_in_Gamma, "Rem_Cont_Contain_Typing")
       \/ ~Rem_consistency_check(wf.Gamma, x_dec_in_Gamma.Gamma)
    THEN Raise
    ELSE Ok(Rem_WT("Rem_Var", wf.E, wf.Gamma,
                   x_dec_in_Gamma.x_typing.x, x_dec_in_Gamma.x_typing.T))

\* the checks of the Prod rules on the two typing premises, after those on s:
\* the same E, the context of the inner premise is that of the outer one
\* extended by a declaration of type T
Prod_premises_ok(wt_outer, s_sort, wt_inner) ==
    /\ Rem_type_check(wt_inner, "Rem_WT")
    /\ Rem_consistency_check(wt_outer.T, s_sort.s)
    /\ Rem_consistency_check(wt_outer.E, wt_inner.E)
    /\ Rem_other_check(~is_empty(wt_inner.Gamma))
    /\ Rem_consistency_check(wt_outer.Gamma, pop(wt_inner.Gamma).Gamma)
    /\ Rem_consistency_check(wt_outer.t, pop(wt_inner.Gamma).dec.T)

Rem_Prod_Set(wt_outer, s_sort, wt_inner) ==
    IF \/ new_raises("Rem_Prod_Set")
       \/ ~Rem_type_check(wt_outer, "Rem_WT")
       \/ ~Rem_other_check(s_sort.s.cls \in {"SProp", "Prop", "Set"})
       \/ ~Prod_premises_ok(wt_outer, s_sort, wt_inner)
       \/ ~Rem_consistency_check(wt_inner.T, Set)
    THEN Raise
    ELSE LET dec == pop(wt_inner.Gamma).dec
         IN  Ok(Rem_WT("Rem_Prod_Set", wt_outer.E, wt_outer.Gamma,
                       Prod(dec.x, dec.T, wt_inner.t), Set))

\* isinstance(s, Type) in Rem_Prod_Type: Type is typing.Type there, of which
\* no sort is an instance
isinstance_typing_Type(s) == FALSE

Rem_Prod_Type(wt_outer, s_sort, wt_inner) ==
    IF \/ new_raises("Rem_Prod_Type")
       \/ ~Rem_type_check(wt_outer, "Rem_WT")
       \/ ~Rem_other_check(s_sort.s.cls = "SProp" \/ isinstance_typing_Type(s_sort.s))
       \/ ~Prod_premises_ok(wt_outer, s_sort, wt_inner)
       \/ ~Rem_type_check(wt_inner.T, "Type_i")
    THEN Raise
    ELSE LET dec == pop(wt_inner.Gamma).dec
         IN  Ok(Rem_WT("Rem_Prod_Type", wt_outer.E, wt_outer.Gamma,
                       Prod(dec.x, dec.T, wt_inner.t), wt_inner.T))

Rem_Lam(wt_outer, wt_inner) ==
    IF \/ new_raises("Rem_Lam")
       \/ ~Rem_type_check(wt_outer, "Rem_WT")
       \/ ~Rem_type_check(wt_inner, "Rem_WT")
       \/ ~Rem_type_check(wt_outer.t, "Prod")
       \/ ~Rem_other_check(~is_empty(wt_inner.Gamma))
       \/ ~Rem_consistency_check(wt_outer.E, wt_inner.E)
       \/ ~Rem_consistency_check(wt_outer.Gamma, pop(wt_inner.Gamma).Gamma)
       \/ ~Rem_consistency_check(wt_outer.t.x, pop(wt_inner.Gamma).dec.x)
       \/ ~Rem_consistency_check(wt_outer.t.T, pop(wt_inner.Gamma).dec.T)
       \/ ~Rem_consistency_check(wt_outer.t.U, wt_inner.T)
    THEN Raise
    ELSE LET dec == pop(wt_inner.Gamma).dec
         IN  Ok(Rem_WT("Rem_Lam", wt_outer.E, wt_outer.Gamma,
                       Abstract(dec.x, dec.T, wt_inner.t), Prod(dec.x, dec.T, wt_inner.T)))

\* cls(E, Gamma, t, T) for a class cls that sets no __new__ of its own: the
\* __init__ it would run keeps the components of the judgment
Instantiate(cls, E, Gamma, t, T) ==
    IF new_raises(cls) THEN Raise
    ELSE Ok(CASE cls = "Rem_WF" -> Rem_WF(cls, E, Gamma)
              [] cls = "Rem_WT" -> Rem_WT(cls, E, Gamma, t, T)
              [] cls \in {"Rem_reduction", "Rem_subtyping"} ->
                    [cls |-> cls, E |-> E, Gamma |-> Gamma, t1 |-> t, t2 |-> T]
              [] OTHER -> [cls |-> cls])

-----------------------------------------------------------------------------
(* A client building well-formedness and typing proofs *)

c == Const("c")

\* the premise-free proof objects the client can build and pass to the rules
SortsIn == {Set, Type_i(1)}
ContextsIn == {Context(<<>>), Context(<<LocalTyping(x, Set)>>)}
Built(results) == {r.obj : r \in {q \in results : q.ok}}
IsSortProofs == Built({Rem_IsSort(s) : s \in SortsIn})
NotContainVarProofs == Built({Rem_Cont_Not_Contain_Var(x, G) : G \in ContextsIn})
ContainTypingProofs ==
    Built({Rem_Cont_Contain_Typing(LocalTyping(x, Set), G) : G \in ContextsIn})
NotContainConstProofs == Built({Rem_Env_Not_Contain_Const(c, Environment(<<>>))})

NoObj == [cls |-> "None"]

\* the client calls a constructor on args and keeps the object it returns,
\* holding at most cap objects
StepCap(op, args, r, cap) ==
    /\ r.ok => Cardinality(store \cup {r.obj}) <= cap
    /\ store' = IF r.ok THEN store \cup {r.obj} ELSE store
    /\ last' = [op |-> op, args |-> args, ok |-> r.ok,
                obj |-> IF r.ok THEN r.obj ELSE NoObj]
    /\ UNCHANGED <<count, passed, arg>>

Step(op, args, r) == StepCap(op, args, r, MaxStore)

InitTyping ==
    /\ count = 0
    /\ passed = {}
    /\ arg = None
    /\ store = {}
    /\ last = None

W_Empty_Call == Step("Rem_W_Empty", <<>>, Rem_W_Empty)

W_Local_Assum_Call ==
    \E wt \in store, s_sort \in IsSortProofs, x_notin_Gamma \in NotContainVarProofs :
        Step("Rem_W_Local_Assum", <<wt, s_sort, x_notin_Gamma>>,
             Rem_W_Local_Assum(wt, s_sort, x_notin_Gamma))

W_Global_Def_Call ==
    \E wt \in store, c_notin_E \in NotContainConstProofs :
        Step("Rem_W_Global_Def", <<wt, c_notin_E>>, Rem_W_Global_Def(wt, c_notin_E))

Ax_Set_Call == \E wf \in store : Step("Rem_Ax_Set", <<wf>>, Rem_Ax_Set(wf))

Var_Call ==
    \E wf \in store, x_dec_in_Gamma \in ContainTypingProofs :
        Step("Rem_Var", <<wf, x_dec_in_Gamma>>, Rem_Var(wf, x_dec_in_Gamma))

Prod_Set_Call ==
    \E wt_outer \in store, s_sort \in IsSortProofs, wt_inner \in store :
        Step("Rem_Prod_Set", <<wt_outer, s_sort, wt_inner>>,
             Rem_Prod_Set(wt_outer, s_sort, wt_inner))

Prod_Type_Call ==
    \E wt_outer \in store, s_sort \in IsSortProofs, wt_inner \in store :
        Step("Rem_Prod_Type", <<wt_outer, s_sort, wt_inner>>,
             Rem_Prod_Type(wt_outer, s_sort, wt_inner))

Lam_Call ==
    \E wt_outer \in store, wt_inner \in store :
        Step("Rem_Lam", <<wt_outer, wt_inner>>, Rem_Lam(wt_outer, wt_inner))

\* the client calls one of the classes decorated with @Rem_term only
Instantiate_Call ==
    \E cls \in Rem_term :
        Step("Instantiate", <<cls>>,
             Instantiate(cls, Environment(<<>>), Context(<<>>), Set, Type_i(1)))

NextTyping ==
    \/ W_Empty_Call
    \/ W_Local_Assum_Call
    \/ W_Global_Def_Call
    \/ Ax_Set_Call
    \/ Var_Call
    \/ Prod_Set_Call
    \/ Prod_Type_Call
    \/ Lam_Call
    \/ Instantiate_Call

SpecTyping == InitTyping /\ [][NextTyping]_vars

-----------------------------------------------------------------------------
(* Subtyping rules: src/Rem/coc/conversion_rule.py *)

\* Rem_subtyping.__init__, run by the rule cls as super().__init__
Rem_subtyping(cls, E, Gamma, t1, t2) ==
    [cls |-> cls, E |-> E, Gamma |-> Gamma, t1 |-> t1, t2 |-> t2]

\* Type_i(i) passes its check of the universe number
Type_i_check(i) == Rem_other_check(0 < i)

\* a condition on the universe numbers that forgets their order
universe_condition_unordered(i, j) == 0 < i

\* 0 < i <= j
universe_condition(i, j) == 0 < i /\ i <= j

Rem_subtyping_universe(E, Gamma, i, j) ==
    IF \/ new_raises("Rem_subtyping_universe")
       \/ ~Rem_other_check(universe_condition(i, j))
       \/ ~Type_i_check(i)
       \/ ~Type_i_check(j)
    THEN Raise
    ELSE Ok(Rem_subtyping("Rem_subtyping_universe", E, Gamma, Type_i(i), Type_i(j)))

Rem_subtyping_trans(subtype1, subtype2) ==
    IF \/ new_raises("Rem_subtyping_trans")
       \/ ~Rem_type_check(subtype1, "Rem_subtyping")
       \/ ~Rem_type_check(subtype2, "Rem_subtyping")
       \/ ~Rem_consistency_check(subtype1.E, subtype2.E)
       \/ ~Rem_consistency_check(subtype1.Gamma, subtype2.Gamma)
       \/ ~Rem_consistency_check(subtype1.t2, subtype2.t1)
    THEN Raise
    ELSE Ok(Rem_subtyping("Rem_subtyping_trans", subtype1.E, subtype1.Gamma,
                          subtype1.t1, subtype2.t2))

\* the universe numbers the client passes
UniversesIn == (-1)..MaxUniverse

InitSub ==
    /\ count = 0
    /\ passed = {}
    /\ arg = None
    /\ store = {}
    /\ last = None

subtyping_universe_Call ==
    \E Gamma \in ContextsIn, i \in UniversesIn, j \in UniversesIn :
        StepCap("Rem_subtyping_universe", <<Environment(<<>>), Gamma, i, j>>,
                Rem_subtyping_universe(Environment(<<>>), Gamma, i, j), MaxChain)

subtyping_trans_Call ==
    \E subtype1 \in store, subtype2 \in store :
        StepCap("Rem_subtyping_trans", <<subtype1, subtype2>>,
                Rem_subtyping_trans(subtype1, subtype2), MaxChain)

NextSub ==
    \/ subtyping_universe_Call
    \/ subtyping_trans_Call

SpecSub == InitSub /\ [][NextSub]_vars

-----------------------------------------------------------------------------
(* beta-reduction: src/Rem/coc/conversion_rule.py and, with the target passed *)
(* by the caller, src/Rem/core/conversion_rule.py, whose terms have the       *)
(* operations of src/Rem/coc/term.py                                          *)

\* Rem_reduction.__init__ and MP_reduction.__init__
Rem_reduction(cls, E, Gamma, t1, t2) ==
    [cls |-> cls, E |-> E, Gamma |-> Gamma, t1 |-> t1, t2 |-> t2]

\* Rem_beta_reduction(E, Gamma, t1): the target is computed
Rem_beta_reduction(E, Gamma, t1) ==
    IF \/ new_raises("Rem_beta_reduction")
       \/ ~Rem_type_check(t1, "Apply")
       \/ ~Rem_type_check(t1.t, "Abstract")
    THEN Raise
    ELSE Ok(Rem_reduction("Rem_beta_reduction", E, Gamma, t1,
                          substitute(t1.t.u, t1.t.x, t1.u)))

\* the end of MP_beta_reduction.__init__, r being what the call of
\* alpha_convertible returned and did to Var.count
MP_beta_reduction_checked(E, Gamma, t1, t2, r) ==
    IF ~r.res THEN [ok |-> FALSE, count |-> r.count, seen |-> r.seen]
    ELSE [ok |-> TRUE, obj |-> Rem_reduction("MP_beta_reduction", E, Gamma, t1, t2),
          count |-> r.count, seen |-> r.seen]

\* MP_beta_reduction(E, Gamma, t1, t2): the target t2 is passed and checked;
\* the check calls alpha_convertible, so it advances Var.count, also when the
\* constructor raises
MP_beta_reduction(E, Gamma, t1, t2, cnt) ==
    IF t1.cls # "Apply" THEN [ok |-> FALSE, count |-> cnt, seen |-> {}]
    ELSE IF t1.t.cls # "Abstract" THEN [ok |-> FALSE, count |-> cnt, seen |-> {}]
    ELSE MP_beta_reduction_checked(E, Gamma, t1, t2,
            alpha_convertible(substitute(t2, t1.t.x, t1.u), t2, cnt))

\* the bodies and arguments of the redexes the client reduces
BetaBodies == {x, Apply(x, y), Abstract(y, Set, x)}
BetaArgs == {y}
BetaSources ==
    {Apply(Abstract(x, Set, b), u) : b \in BetaBodies, u \in BetaArgs}
    \cup {Apply(x, y)}

\* the targets the client passes: the results of the substitutions, and others
BetaTargets ==
    {substitute(b, x, u) : b \in BetaBodies, u \in BetaArgs} \cup {Set, x, y}

InitBeta ==
    /\ count = 0
    /\ passed = {}
    /\ arg = None
    /\ store = {}
    /\ last = None

Rem_beta_reduction_Call ==
    \E t1 \in BetaSources :
        StepCap("Rem_beta_reduction", <<t1>>,
                Rem_beta_reduction(Environment(<<>>), Context(<<>>), t1), MaxChain)

MP_beta_reduction_Call ==
    \E t1 \in BetaSources, t2 \in BetaTargets :
        \E r \in {MP_beta_reduction(Environment(<<>>), Context(<<>>), t1, t2, count)} :
            /\ r.count <= MaxCount
            /\ r.ok => Cardinality(store \cup {r.obj}) <= MaxChain
            /\ store' = IF r.ok THEN store \cup {r.obj} ELSE store
            /\ last' = [op |-> "MP_beta_reduction", args |-> <<t1, t2>>, ok |-> r.ok,
                        obj |-> IF r.ok THEN r.obj ELSE NoObj]
            /\ count' = r.count
            /\ passed' = passed \cup r.seen
            /\ UNCHANGED arg

NextBeta ==
    \/ Rem_beta_reduction_Call
    \/ MP_beta_reduction_Call

SpecBeta == InitBeta /\ [][NextBeta]_vars

-----------------------------------------------------------------------------
(* Properties of the fresh-name counter *)

\* C7: the variable returned by Var.fresh_var(S) is in all_var of no term of
\* the tuple S, whatever the value of the counter at the call.
FreshVarNotInTerms ==
    last.op = "fresh_var" => last.ret \notin var_set_of(last.terms)

\* a call that had to step over names occurring in its terms
FreshVarSteppedOver ==
    /\ last.op = "fresh_var"
    /\ last.before > 0
    /\ count > last.before
    /\ Var(FreshName(last.before)) \in var_set_of(last.terms)

\* C8 as stated: the name returned by a call occurs in no term passed to that
\* call or to any earlier fresh_var call.
FreshVarNeverLiveBefore ==
    last.op = "fresh_var" =>
        last.ret \notin (last.earlier \cup var_set_of(last.terms))

\* C8 as amended: the name returned by a call occurs in no term passed to that
\* call; it is the name of the counter value the call leaves, which is the
\* first value at or above the previous one whose name is not in those terms,
\* and the counter never decreases.
FreshVarFirstAboveCounter ==
    /\ last.op = "fresh_var" =>
          /\ last.ret = Var(FreshName(count))
          /\ last.before <= count
          /\ last.ret \notin var_set_of(last.terms)
          /\ \A n \in last.before..(count - 1) :
                Var(FreshName(n)) \in var_set_of(last.terms)
    /\ last.op = "alpha_convertible" => last.before <= count

\* a call that returned a name occurring in a term passed to an earlier call
FreshVarReusedEarlierName ==
    /\ last.op = "fresh_var"
    /\ last.ret \in last.earlier
    /\ last.ret \notin var_set_of(last.terms)

-----------------------------------------------------------------------------
(* Properties of the term operations *)

\* the pair Prod(x, T, U), Prod(y, T, U.substitute(x, y)) with x # y, x not
\* free in T and y occurring neither in T nor in U
RenamedProdPair ==
    /\ arg.kind = "pair"
    /\ arg.self.cls = "Prod" /\ arg.other.cls = "Prod"
    /\ arg.self.x # arg.other.x
    /\ arg.self.x \notin free_var(arg.self.T)
    /\ arg.other.x \notin all_var(arg.self.T) \cup all_var(arg.self.U)
    /\ arg.other = Prod(arg.other.x, arg.self.T,
                        substitute(arg.self.U, arg.self.x, arg.other.x))

\* C9: for such a pair, == is false and alpha_convertible is true.
RenamedProdNotEqButAlpha ==
    RenamedProdPair =>
        /\ last.op = "eq" => ~last.ret
        /\ last.op = "alpha_convertible" => last.ret

\* C10: for a binder node b (Prod, Abstract, Let_in) with bound variable x,
\* b.substitute(x, s) returns b unchanged.
SubstituteShadowedIsNoOp ==
    (/\ last.op = "substitute"
     /\ arg.self.cls \in {"Prod", "Abstract", "Let_in"}
     /\ arg.x = arg.self.x)
    => /\ last.ret = arg.self
       /\ eq(last.ret, arg.self)

\* a substitution of the bound variable of a product in whose body it occurs
SubstituteShadowedHappened ==
    /\ last.op = "substitute"
    /\ arg.self.cls = "Prod"
    /\ arg.x = arg.self.x
    /\ arg.x \in all_var(arg.self.U)
    /\ arg.t # arg.x
    /\ last.ret = arg.self

-----------------------------------------------------------------------------
(* Properties of the class registry and of the typing rules *)

\* the rule constructor of its class yields the proof p from premises that
\* the client holds
BuiltByItsRule(p) ==
    CASE p.cls = "Rem_W_Empty" -> Rem_W_Empty = Ok(p)
      [] p.cls = "Rem_W_Local_Assum" ->
            \E wt \in store, s_sort \in IsSortProofs, n \in NotContainVarProofs :
                Rem_W_Local_Assum(wt, s_sort, n) = Ok(p)
      [] p.cls = "Rem_W_Global_Def" ->
            \E wt \in store, n \in NotContainConstProofs : Rem_W_Global_Def(wt, n) = Ok(p)
      [] p.cls = "Rem_Ax_Set" -> \E wf \in store : Rem_Ax_Set(wf) = Ok(p)
      [] p.cls = "Rem_Var" ->
            \E wf \in store, m \in ContainTypingProofs : Rem_Var(wf, m) = Ok(p)
      [] p.cls = "Rem_Prod_Set" ->
            \E wt_outer \in store, s_sort \in IsSortProofs, wt_inner \in store :
                Rem_Prod_Set(wt_outer, s_sort, wt_inner) = Ok(p)
      [] p.cls = "Rem_Prod_Type" ->
            \E wt_outer \in store, s_sort \in IsSortProofs, wt_inner \in store :
                Rem_Prod_Type(wt_outer, s_sort, wt_inner) = Ok(p)
      [] p.cls = "Rem_Lam" ->
            \E wt_outer \in store, wt_inner \in store : Rem_Lam(wt_outer, wt_inner) = Ok(p)
      [] OTHER -> FALSE

\* C1: calling Rem_WF, Rem_WT, Rem_reduction, Rem_subtyping, Term, Sort,
\* BoundTerm, LocalDec or GlobalDec raises and yields no object; every proof
\* object that exists is an instance of a concrete rule class deriving from a
\* judgment class, built by the constructor of that rule with all its checks
\* passed.
OnlyConcreteRulesBuildProofs ==
    /\ (/\ last.op = "Instantiate"
        /\ last.args[1] \in {"Rem_WF", "Rem_WT", "Rem_reduction", "Rem_subtyping",
                             "Term", "Sort", "BoundTerm", "LocalDec", "GlobalDec"})
       => ~last.ok /\ last.obj = NoObj
    /\ \A p \in store :
          /\ p.cls \in concrete_Rem_term
          /\ \E family \in {"Rem_WF", "Rem_WT", "Rem_reduction", "Rem_subtyping"} :
                p.cls # family /\ issubclass(p.cls, family)
          /\ BuiltByItsRule(p)

\* Rem_WT(...) was called and raised while the client holds a typing proof
\* built by the rule Var
AbstractJudgmentRefused ==
    /\ last.op = "Instantiate"
    /\ last.args[1] = "Rem_WT"
    /\ ~last.ok
    /\ \E p \in store : p.cls = "Rem_Var" /\ issubclass(p.cls, "Rem_WT")

\* the two Ax-Set proofs of the scenario: over [][] and over [][x:Set]
IsAxSetOver(p, Gamma) ==
    /\ p.cls = "Rem_Ax_Set"
    /\ p.E = Environment(<<>>)
    /\ p.Gamma = Gamma

\* C2: from W-Empty one reaches WF([])[x:Set], then [][x:Set] |- x : Set, and
\* the product premise of Lam for the identity on Set is established from the
\* Ax-Set proof over [][] and the Ax-Set proof over [][x:Set]: the product rule
\* applied to them (Prod-Set as stated, or Prod-Type), with the sort of the
\* outer proof, yields a proof of the product of Set over x:Set.
IdentityProductDerivable ==
    (/\ last.op \in {"Rem_Prod_Set", "Rem_Prod_Type"}
     /\ IsAxSetOver(last.args[1], Context(<<>>))
     /\ IsAxSetOver(last.args[3], Context(<<LocalTyping(x, Set)>>))
     /\ last.args[2].s = last.args[1].T
     /\ \E p \in store : p.cls = "Rem_Var" /\ p.t = x /\ p.T = Set)
    => /\ last.ok
       /\ last.obj.t = Prod(x, Set, Set)

-----------------------------------------------------------------------------
(* Properties of the subtyping rules *)

\* C5: subtype-universe(E, Gamma, i, j) succeeds if and only if 0 < i <= j,
\* and then its conclusion is E[Gamma] |- Type(i) <= Type(j).
UniverseCumulativity ==
    last.op = "Rem_subtyping_universe" =>
        /\ last.ok <=> (0 < last.args[3] /\ last.args[3] <= last.args[4])
        /\ last.ok =>
              /\ issubclass(last.obj.cls, "Rem_subtyping")
              /\ last.obj.E = last.args[1]
              /\ last.obj.Gamma = last.args[2]
              /\ last.obj.t1 = Type_i(last.args[3])
              /\ last.obj.t2 = Type_i(last.args[4])
              /\ last.obj \in store

\* subtype-universe built a proof between two different universes over a
\* context that is not empty
UniverseStepBuilt ==
    /\ last.op = "Rem_subtyping_universe"
    /\ last.ok
    /\ last.args[3] < last.args[4]
    /\ ~is_empty(last.args[2])
    /\ last.obj \in store

\* C6: subtype-trans on proofs of t1 <= t2 and t2 <= t3 over the same E and
\* Gamma builds a proof of t1 <= t3.
SubtypingTransComposes ==
    (/\ last.op = "Rem_subtyping_trans"
     /\ py_eq(last.args[1].E, last.args[2].E)
     /\ py_eq(last.args[1].Gamma, last.args[2].Gamma)
     /\ py_eq(last.args[1].t2, last.args[2].t1))
    => /\ last.ok
       /\ last.obj.E = last.args[1].E
       /\ last.obj.Gamma = last.args[1].Gamma
       /\ last.obj.t1 = last.args[1].t1
       /\ last.obj.t2 = last.args[2].t2

-----------------------------------------------------------------------------
(* Properties of beta-reduction *)

\* C3: every beta-reduction proof of source (\x:T.t) u that exists has a
\* target alpha-convertible to t.substitute(x, u); a target unrelated to it
\* makes the construction raise.
BetaTargetIsSubstitution ==
    \A p \in store :
        LET expected == substitute(p.t1.t.u, p.t1.t.x, p.t1.u)
        IN  \/ p.t2 = expected
            \/ alpha_convertible(p.t2, expected, count).res

-----------------------------------------------------------------------------
(* Contexts as values: push and pop of src/Rem/coc/context.py *)

MaxContext == 2      \* length of the contexts the client passes

\* Context.pop: it raises on the empty context
Context_pop(self) ==
    IF ~Rem_other_check(~is_empty(self)) THEN Raise ELSE Ok(pop(self))

\* the declarations and contexts the client passes
DecsIn ==
    {LocalTyping(x, Set), LocalTyping(y, x), LocalDef(x, Set, Type_i(1)),
     LocalDef(y, x, Set)}
ContextsOver(decs, n) == {Context(ls) : ls \in Tuples(decs, n)}

InitContext ==
    /\ count = 0
    /\ passed = {}
    /\ arg \in {[kind |-> "context", Gamma |-> G, dec |-> dec] :
                  G \in ContextsOver(DecsIn, MaxContext), dec \in DecsIn}
    /\ store = {}
    /\ last = None

\* Gamma.push(dec).pop(), Gamma being the context the client holds
PushPopCall ==
    /\ last = None
    /\ last' = [op |-> "push_pop", before |-> arg.Gamma,
                pushed |-> push(arg.Gamma, arg.dec),
                ret |-> Context_pop(push(arg.Gamma, arg.dec))]
    /\ UNCHANGED <<count, passed, arg, store>>

\* Gamma.pop()
PopCall ==
    /\ last = None
    /\ last' = [op |-> "pop", before |-> arg.Gamma, ret |-> Context_pop(arg.Gamma)]
    /\ UNCHANGED <<count, passed, arg, store>>

NextContext ==
    \/ PushPopCall
    \/ PopCall

SpecContext == InitContext /\ [][NextContext]_vars

\* C11: Gamma.push(dec).pop() == (Gamma, dec) for every context Gamma and
\* declaration dec, and Gamma is the same after the push as before.
PushPopRoundTrip ==
    last.op = "push_pop" =>
        /\ last.ret.ok
        /\ py_eq(last.ret.obj.Gamma, arg.Gamma)
        /\ py_eq(last.ret.obj.dec, arg.dec)
        /\ arg.Gamma = last.before
        /\ last.pushed # arg.Gamma

\* a push on a context that is not empty of a declaration other than its first
PushPopOnNonEmpty ==
    /\ last.op = "push_pop"
    /\ ~is_empty(arg.Gamma)
    /\ arg.dec # arg.Gamma.ls[1]
    /\ last.ret.ok
    /\ last.ret.obj.dec = arg.dec

-----------------------------------------------------------------------------
(* W-Global-Assum: src/Rem/coc/typing_rule.py *)

\* the check named "consistent E" compares wt.E with the proof c_notin_E
\* itself, and the declaration pushed takes wt.T as its type
Rem_W_Global_Assum(wt, s_sort, c_notin_E) ==
    IF \/ new_raises("Rem_W_Global_Assum")
       \/ ~Rem_type_check(wt, "Rem_WT")
       \/ ~Rem_type_check(s_sort, "Rem_IsSort")
       \/ ~Rem_type_check(c_notin_E, "Rem_Env_Not_Contain_Const")
       \/ ~Rem_other_check(is_empty(wt.Gamma))
       \/ ~Rem_consistency_check(wt.T, s_sort.s)
       \/ ~Rem_consistency_check(wt.E, c_notin_E)
    THEN Raise
    ELSE Ok(Rem_WF("Rem_W_Global_Assum", push(wt.E, GlobalTyping(c_notin_E.c, wt.T)),
                   Context(<<>>)))

W_Global_Assum_Call ==
    \E wt \in store, s_sort \in IsSortProofs, c_notin_E \in NotContainConstProofs :
        Step("Rem_W_Global_Assum", <<wt, s_sort, c_notin_E>>,
             Rem_W_Global_Assum(wt, s_sort, c_notin_E))

\* a client building environments and contexts
NextGlobal ==
    \/ W_Empty_Call
    \/ Ax_Set_Call
    \/ W_Local_Assum_Call
    \/ W_Global_Def_Call
    \/ W_Global_Assum_Call

SpecGlobal == InitTyping /\ [][NextGlobal]_vars

\* C12: W-Global-Assum on a proof wt of E[] |- T : s with an empty context, a
\* proof of s in S for the same s and a proof of c not in E for the same E
\* succeeds and concludes WF(E; c:T) with an empty context, T being the term
\* of wt; it fails when the context of wt is not empty.
GlobalAssumExtendsEnvironment ==
    (/\ last.op = "Rem_W_Global_Assum"
     /\ Rem_type_check(last.args[1], "Rem_WT"))
    => IF /\ is_empty(last.args[1].Gamma)
          /\ py_eq(last.args[1].T, last.args[2].s)
          /\ py_eq(last.args[1].E, last.args[3].E)
       THEN /\ last.ok
            /\ last.obj.E = push(last.args[1].E,
                                 GlobalTyping(last.args[3].c, last.args[1].t))
            /\ last.obj.Gamma = Context(<<>>)
       ELSE ~is_empty(last.args[1].Gamma) => ~last.ok


-----------------------------------------------------------------------------
\* The product rules for the impredicative sorts (typing_rule.py).

Rem_Prod_SProp(wt_outer, s_sort, wt_inner) ==
    IF \/ new_raises("Rem_Prod_SProp")
       \/ ~Rem_type_check(wt_outer, "Rem_WT")
       \/ ~Rem_type_check(s_sort, "Rem_IsSort")
       \/ ~Prod_premises_ok(wt_outer, s_sort, wt_inner)
       \/ ~Rem_consistency_check(wt_inner.T, SProp)
    THEN Raise
    ELSE LET dec == pop(wt_inner.Gamma).dec
         IN  Ok(Rem_WT("Rem_Prod_SProp", wt_outer.E, wt_outer.Gamma,
                       Prod(dec.x, dec.T, wt_inner.t), SProp))

Rem_Prod_Prop(wt_outer, s_sort, wt_inner) ==
    IF \/ new_raises("Rem_Prod_Prop")
       \/ ~Rem_type_check(wt_outer, "Rem_WT")
       \/ ~Rem_type_check(s_sort, "Rem_IsSort")
       \/ ~Prod_premises_ok(wt_outer, s_sort, wt_inner)
       \/ ~Rem_consistency_check(wt_inner.T, Prop)
    THEN Raise
    ELSE LET dec == pop(wt_inner.Gamma).dec
         IN  Ok(Rem_WT("Rem_Prod_Prop", wt_outer.E, wt_outer.Gamma,
                       Prod(dec.x, dec.T, wt_inner.t), Prop))

Prod_SProp_Call ==
    \E wt_outer \in store, s_sort \in IsSortProofs, wt_inner \in store :
        Step("Rem_Prod_SProp", <<wt_outer, s_sort, wt_inner>>,
             Rem_Prod_SProp(wt_outer, s_sort, wt_inner))

Prod_Prop_Call ==
    \E wt_outer \in store, s_sort \in IsSortProofs, wt_inner \in store :
        Step("Rem_Prod_Prop", <<wt_outer, s_sort, wt_inner>>,
             Rem_Prod_Prop(wt_outer, s_sort, wt_inner))

NextProd ==
    \/ W_Empty_Call
    \/ W_Local_Assum_Call
    \/ Ax_Set_Call
    \/ Prod_SProp_Call
    \/ Prod_Prop_Call
    \/ Prod_Set_Call
    \/ Prod_Type_Call

SpecProd == InitTyping /\ [][NextProd]_vars

\* C13: with premises that are otherwise consistent, Prod-Set accepts the
\* outer judgment T : s exactly when s is SProp, Prop or Set, Prod-Type
\* exactly when s is SProp or a universe Type(i), and Prod-SProp and Prod-Prop
\* accept every sort s.
ProdSortSideCondition ==
    (/\ last.op \in {"Rem_Prod_SProp", "Rem_Prod_Prop", "Rem_Prod_Set", "Rem_Prod_Type"}
     /\ Rem_type_check(last.args[1], "Rem_WT")
     /\ Prod_premises_ok(last.args[1], last.args[2], last.args[3])
     /\ CASE last.op = "Rem_Prod_SProp" -> py_eq(last.args[3].T, SProp)
          [] last.op = "Rem_Prod_Prop" -> py_eq(last.args[3].T, Prop)
          [] last.op = "Rem_Prod_Set" -> py_eq(last.args[3].T, Set)
          [] last.op = "Rem_Prod_Type" -> last.args[3].T.cls = "Type_i")
    => (last.ok <=>
           CASE last.op = "Rem_Prod_Set" ->
                    last.args[2].s.cls \in {"SProp", "Prop", "Set"}
             [] last.op = "Rem_Prod_Type" ->
                    last.args[2].s.cls \in {"SProp", "Type_i"}
             [] OTHER -> TRUE)

-----------------------------------------------------------------------------
\* Unfolding of definitions: delta-reduction for a local definition and
\* Delta-reduction for a global one (conversion_rule.py), with the proofs
\* that a definition is in a context or an environment.

\* Rem_Cont_Contain_Def(x_def, Gamma): x_def in Gamma.ls
Rem_Cont_Contain_Def(x_def, Gamma) ==
    IF \/ new_raises("Rem_Cont_Contain_Def")
       \/ ~Rem_type_check(x_def, "LocalDef")
       \/ ~Rem_type_check(Gamma, "Context")
       \/ ~Rem_other_check(\E k \in DOMAIN Gamma.ls : py_eq(Gamma.ls[k], x_def))
    THEN Raise
    ELSE Ok([cls |-> "Rem_Cont_Contain_Def", x_def |-> x_def, Gamma |-> Gamma])

\* Rem_Env_Contain_Def(c_def, E): c_def in E.ls
Rem_Env_Contain_Def(c_def, E) ==
    IF \/ new_raises("Rem_Env_Contain_Def")
       \/ ~Rem_type_check(c_def, "GlobalDef")
       \/ ~Rem_type_check(E, "Environment")
       \/ ~Rem_other_check(\E k \in DOMAIN E.ls : py_eq(E.ls[k], c_def))
    THEN Raise
    ELSE Ok([cls |-> "Rem_Env_Contain_Def", c_def |-> c_def, E |-> E])

Rem_W_Local_Def(wt, x_notin_Gamma) ==
    IF \/ new_raises("Rem_W_Local_Def")
       \/ ~Rem_type_check(wt, "Rem_WT")
       \/ ~Rem_type_check(x_notin_Gamma, "Rem_Cont_Not_Contain_Var")
       \/ ~Rem_consistency_check(wt.Gamma, x_notin_Gamma.Gamma)
    THEN Raise
    ELSE Ok(Rem_WF("Rem_W_Local_Def", wt.E,
                   push(x_notin_Gamma.Gamma, LocalDef(x_notin_Gamma.x, wt.t, wt.T))))

\* the context of wf is compared with the proof x_in_Gamma itself
Rem_delta_reduction(wf, x_in_Gamma) ==
    IF \/ new_raises("Rem_delta_reduction")
       \/ ~Rem_type_check(wf, "Rem_WF")
       \/ ~Rem_type_check(x_in_Gamma, "Rem_Cont_Contain_Def")
       \/ ~Rem_consistency_check(wf.Gamma, x_in_Gamma)
    THEN Raise
    ELSE Ok(Rem_reduction("Rem_delta_reduction", wf.E, wf.Gamma,
                          x_in_Gamma.x_def.x, x_in_Gamma.x_def.t))

\* the environment of wf is compared with the proof c_in_E itself
Rem_Delta_reduction(wf, c_in_E) ==
    IF \/ new_raises("Rem_Delta_reduction")
       \/ ~Rem_type_check(wf, "Rem_WF")
       \/ ~Rem_type_check(c_in_E, "Rem_Env_Contain_Def")
       \/ ~Rem_consistency_check(wf.E, c_in_E)
    THEN Raise
    ELSE Ok(Rem_reduction("Rem_Delta_reduction", wf.E, wf.Gamma,
                          c_in_E.c_def.c, c_in_E.c_def.t))

\* the definitions the client looks up, in the context and the environment
\* that W-Local-Def and W-Global-Def build from Set : Type(1), and in empty ones
ContainDefProofs ==
    Built({Rem_Cont_Contain_Def(LocalDef(x, Set, Type_i(1)), G) :
              G \in {Context(<<>>), Context(<<LocalDef(x, Set, Type_i(1))>>)}})

EnvContainDefProofs ==
    Built({Rem_Env_Contain_Def(GlobalDef(c, Set, Type_i(1)), E) :
              E \in {Environment(<<>>), Environment(<<GlobalDef(c, Set, Type_i(1))>>)}})

W_Local_Def_Call ==
    \E wt \in store, x_notin_Gamma \in NotContainVarProofs :
        Step("Rem_W_Local_Def", <<wt, x_notin_Gamma>>, Rem_W_Local_Def(wt, x_notin_Gamma))

delta_reduction_Call ==
    \E wf \in store, x_in_Gamma \in ContainDefProofs :
        Step("Rem_delta_reduction", <<wf, x_in_Gamma>>, Rem_delta_reduction(wf, x_in_Gamma))

Delta_reduction_Call ==
    \E wf \in store, c_in_E \in EnvContainDefProofs :
        Step("Rem_Delta_reduction", <<wf, c_in_E>>, Rem_Delta_reduction(wf, c_in_E))

NextDelta ==
    \/ W_Empty_Call
    \/ Ax_Set_Call
    \/ W_Local_Def_Call
    \/ W_Global_Def_Call
    \/ delta_reduction_Call
    \/ Delta_reduction_Call

SpecDelta == InitTyping /\ [][NextDelta]_vars

\* C14: delta-reduction on WF(E)[Gamma] and a proof of (x := t : T) in Gamma
\* succeeds exactly when the two contexts are the same and concludes x |> t;
\* Delta-reduction on WF(E)[Gamma] and a proof of (c := t : T) in E succeeds
\* exactly when the two environments are the same and concludes c |> t.
DefinitionUnfolds ==
    /\ (last.op = "Rem_delta_reduction" /\ Rem_type_check(last.args[1], "Rem_WF"))
       => /\ last.ok <=> py_eq(last.args[1].Gamma, last.args[2].Gamma)
          /\ last.ok => /\ last.obj.t1 = last.args[2].x_def.x
                        /\ last.obj.t2 = last.args[2].x_def.t
    /\ (last.op = "Rem_Delta_reduction" /\ Rem_type_check(last.args[1], "Rem_WF"))
       => /\ last.ok <=> py_eq(last.args[1].E, last.args[2].E)
          /\ last.ok => /\ last.obj.t1 = last.args[2].c_def.c
                        /\ last.obj.t2 = last.args[2].c_def.t

-----------------------------------------------------------------------------
\* Convertibility from two reductions (conversion_rule.py).

\* a Rem_convertible built from red1 and red2, which it keeps, with its
\* properties E, Gamma, t1 and t2: each of them reads red1, and t2 returns
\* red1.t2
Rem_convertible_conclusion(red1, red2) ==
    [cls |-> "Rem_convertible", red1 |-> red1, red2 |-> red2,
     E |-> red1.E, Gamma |-> red1.Gamma, t1 |-> red1.t1, t2 |-> red1.t2]

\* the end of the branch of Rem_convertible.__init__ for u_eq_proof None, r
\* being what the call of alpha_convertible returned and did to Var.count
Rem_convertible_checked(red1, red2, r) ==
    IF ~Rem_other_check(r.res) THEN [ok |-> FALSE, count |-> r.count, seen |-> r.seen]
    ELSE [ok |-> TRUE, obj |-> Rem_convertible_conclusion(red1, red2),
          count |-> r.count, seen |-> r.seen]

\* Rem_convertible(red1, red2, u_eq_proof), called when Var.count is cnt; None
\* is NoObj
Rem_convertible(red1, red2, u_eq_proof, cnt) ==
    IF \/ new_raises("Rem_convertible")
       \/ ~Rem_type_check(red1, "Rem_reduction")
       \/ ~Rem_type_check(red2, "Rem_reduction")
       \/ ~(u_eq_proof = NoObj \/ Rem_type_check(u_eq_proof, "Rem_eta_conversion"))
       \/ ~Rem_consistency_check(red1.E, red2.E)
       \/ ~Rem_consistency_check(red1.Gamma, red2.Gamma)
    THEN [ok |-> FALSE, count |-> cnt, seen |-> {}]
    ELSE IF u_eq_proof = NoObj
    THEN Rem_convertible_checked(red1, red2, alpha_convertible(red1.t2, red2.t2, cnt))
    ELSE IF \/ ~Rem_consistency_check(u_eq_proof.E, red1.E)
            \/ ~Rem_consistency_check(u_eq_proof.Gamma, red1.Gamma)
            \/ ~Rem_other_check(
                  \/ py_eq(red1.t2, u_eq_proof.t) /\ py_eq(red2.t2, u_eq_proof.lam)
                  \/ py_eq(red1.t2, u_eq_proof.lam) /\ py_eq(red2.t2, u_eq_proof.t))
    THEN [ok |-> FALSE, count |-> cnt, seen |-> {}]
    ELSE [ok |-> TRUE, obj |-> Rem_convertible_conclusion(red1, red2),
          count |-> cnt, seen |-> {}]

\* the redexes whose reductions the client relates: two of them reduce to y
ConvSources == BetaSources \cup {Apply(Abstract(y, Set, y), y)}

beta_reduction_Conv_Call ==
    \E t1 \in ConvSources :
        Step("Rem_beta_reduction", <<t1>>,
             Rem_beta_reduction(Environment(<<>>), Context(<<>>), t1))

\* the client passes two reductions it holds and no proof of eta-conversion
convertible_Call ==
    \E red1 \in store, red2 \in store :
        \E r \in {Rem_convertible(red1, red2, NoObj, count)} :
            /\ r.count <= MaxCount
            /\ last' = [op |-> "Rem_convertible", args |-> <<red1, red2>>, ok |-> r.ok,
                        obj |-> IF r.ok THEN r.obj ELSE NoObj]
            /\ count' = r.count
            /\ passed' = passed \cup r.seen
            /\ UNCHANGED <<arg, store>>

NextConv ==
    \/ beta_reduction_Conv_Call
    \/ convertible_Call

SpecConv == InitBeta /\ [][NextConv]_vars

\* C15: the judgment built by Rem_convertible from red1 : t1 |> u1 and
\* red2 : t2 |> u2 relates the source of red1 and the source of red2, and
\* without a proof of eta-conversion it is built only if u1 and u2 are
\* alpha-convertible.
ConvertibleRelatesTheSources ==
    (last.op = "Rem_convertible" /\ last.ok)
    => /\ last.obj.t1 = last.args[1].t1
       /\ last.obj.t2 = last.args[2].t1
       /\ alpha_convertible(last.args[1].t2, last.args[2].t2, 0).res

-----------------------------------------------------------------------------
\* Set below the universes (conversion_rule.py).

\* Type_i() as Rem_subtyping_Set calls it: __init__ is called without its
\* parameter i, which raises
Type_i_without_argument == Raise

Rem_subtyping_Set(E, Gamma, i) ==
    IF \/ new_raises("Rem_subtyping_Set")
       \/ ~Rem_other_check(0 < i)
       \/ ~Type_i_without_argument.ok
    THEN Raise
    ELSE Ok(Rem_subtyping("Rem_subtyping_Set", E, Gamma, Set, Type_i_without_argument.obj))

subtyping_Set_Call ==
    \E Gamma \in ContextsIn, i \in UniversesIn :
        StepCap("Rem_subtyping_Set", <<Environment(<<>>), Gamma, i>>,
                Rem_subtyping_Set(Environment(<<>>), Gamma, i), MaxChain)

NextSubSet ==
    \/ subtyping_Set_Call
    \/ subtyping_universe_Call
    \/ subtyping_trans_Call

SpecSubSet == InitSub /\ [][NextSubSet]_vars

\* C16: subtype-Set(E, Gamma, i) is built exactly when 0 < i, and it then
\* concludes Set <= Type(i) in E and Gamma.
SetBelowEveryUniverse ==
    last.op = "Rem_subtyping_Set"
    => /\ last.ok <=> 0 < last.args[3]
       /\ last.ok => /\ last.obj.t1 = Set
                     /\ last.obj.t2 = Type_i(last.args[3])

-----------------------------------------------------------------------------
\* Looking a declaration up in a context (context.py).

\* the declarations the client looks up and builds contexts of: a definition
\* of x with the type of the assumption (x : Set), and one with another type
ContainDecsIn ==
    {LocalTyping(x, Set), LocalTyping(y, Set), LocalDef(x, y, Set),
     LocalDef(x, Set, Type_i(1))}

InitContain ==
    /\ count = 0
    /\ passed = {}
    /\ arg \in {[kind |-> "context", Gamma |-> G, dec |-> dec] :
                  G \in ContextsOver(ContainDecsIn, MaxContext), dec \in ContainDecsIn}
    /\ store = {}
    /\ last = None

\* Rem_Cont_Contain_Typing(dec, Gamma) on the declaration and the context the
\* client holds
Cont_Contain_Typing_Call ==
    /\ last = None
    /\ last' = [op |-> "Rem_Cont_Contain_Typing",
                ret |-> Rem_Cont_Contain_Typing(arg.dec, arg.Gamma)]
    /\ UNCHANGED <<count, passed, arg, store>>

\* Rem_Cont_Contain_Def(dec, Gamma)
Cont_Contain_Def_Call ==
    /\ last = None
    /\ last' = [op |-> "Rem_Cont_Contain_Def",
                ret |-> Rem_Cont_Contain_Def(arg.dec, arg.Gamma)]
    /\ UNCHANGED <<count, passed, arg, store>>

NextContain ==
    \/ Cont_Contain_Typing_Call
    \/ Cont_Contain_Def_Call

SpecContain == InitContain /\ [][NextContain]_vars

\* C17: the proof of (x : T) in Gamma is built exactly when Gamma holds that
\* assumption or a definition (x := t : T) of the same x and T, and the proof
\* of (x := t : T) in Gamma exactly when Gamma holds that very definition.
ContainmentProofsExactlyWhenContained ==
    /\ (last.op = "Rem_Cont_Contain_Typing" /\ arg.dec.cls = "LocalTyping")
       => (last.ret.ok <=>
              \E k \in DOMAIN arg.Gamma.ls :
                 \/ arg.Gamma.ls[k] = arg.dec
                 \/ /\ arg.Gamma.ls[k].cls = "LocalDef"
                    /\ arg.Gamma.ls[k].x = arg.dec.x
                    /\ arg.Gamma.ls[k].T = arg.dec.T)
    /\ (last.op = "Rem_Cont_Contain_Def" /\ arg.dec.cls = "LocalDef")
       => (last.ret.ok <=> \E k \in DOMAIN arg.Gamma.ls : arg.Gamma.ls[k] = arg.dec)

\* the typing of x was found in a context that holds it through a definition
\* of x only
TypingFoundThroughDefinition ==
    /\ last.op = "Rem_Cont_Contain_Typing"
    /\ last.ret.ok
    /\ \A k \in DOMAIN arg.Gamma.ls : arg.Gamma.ls[k] # arg.dec

-----------------------------------------------------------------------------
\* Application (typing_rule.py), on a derivation with a dependent product.

Rem_Ax_SProp(wf) ==
    IF new_raises("Rem_Ax_SProp") \/ ~Rem_type_check(wf, "Rem_WF") THEN Raise
    ELSE Ok(Rem_WT("Rem_Ax_SProp", wf.E, wf.Gamma, SProp, Type_i(1)))

\* an application whose type is the codomain as it stands
Rem_App_without_substitution(wt_t, wt_u) ==
    IF \/ new_raises("Rem_App")
       \/ ~Rem_type_check(wt_t, "Rem_WT")
       \/ ~Rem_type_check(wt_u, "Rem_WT")
       \/ ~Rem_type_check(wt_t.T, "Prod")
       \/ ~Rem_consistency_check(wt_t.E, wt_u.E)
       \/ ~Rem_consistency_check(wt_t.Gamma, wt_u.Gamma)
       \/ ~Rem_consistency_check(wt_t.T.T, wt_u.T)
    THEN Raise
    ELSE Ok(Rem_WT("Rem_App", wt_t.E, wt_t.Gamma, Apply(wt_t.t, wt_u.t), wt_t.T.U))

Rem_App(wt_t, wt_u) ==
    IF \/ new_raises("Rem_App")
       \/ ~Rem_type_check(wt_t, "Rem_WT")
       \/ ~Rem_type_check(wt_u, "Rem_WT")
       \/ ~Rem_type_check(wt_t.T, "Prod")
       \/ ~Rem_consistency_check(wt_t.E, wt_u.E)
       \/ ~Rem_consistency_check(wt_t.Gamma, wt_u.Gamma)
       \/ ~Rem_consistency_check(wt_t.T.T, wt_u.T)
    THEN Raise
    ELSE Ok(Rem_WT("Rem_App", wt_t.E, wt_t.Gamma, Apply(wt_t.t, wt_u.t),
                   substitute(wt_t.T.U, wt_t.T.x, wt_u.t)))

\* the client extends the context of wt by (v : wt.t), wt.T being the sort s,
\* and reads the variable v of type T in the context of wf
Assume(wt, s, v) ==
    Rem_W_Local_Assum(wt, Rem_IsSort(s).obj, Rem_Cont_Not_Contain_Var(v, wt.Gamma).obj).obj
Lookup(wf, v, T) ==
    Rem_Var(wf, Rem_Cont_Contain_Typing(LocalTyping(v, T), wf.Gamma).obj).obj

\* The derivation of f a : P a in [A : SProp; P : A -> Set; f : forall z:A, P z;
\* a : A], each proof built by the rule named from the proofs before it.
var_A == Var("A")
var_P == Var("P")
var_f == Var("f")
var_a == Var("a")
var_z == Var("z")
App_wf0 == Rem_W_Empty.obj
App_axS == Rem_Ax_SProp(App_wf0).obj
App_wf1 == Assume(App_axS, Type_i(1), var_A)
App_vA1 == Lookup(App_wf1, var_A, SProp)
App_wf2 == Assume(App_vA1, SProp, var_z)
App_ax2 == Rem_Ax_Set(App_wf2).obj
App_prodP == Rem_Prod_Type(App_vA1, Rem_IsSort(SProp).obj, App_ax2).obj
App_wf3 == Assume(App_prodP, Type_i(1), var_P)
App_vA3 == Lookup(App_wf3, var_A, SProp)
App_wf4 == Assume(App_vA3, SProp, var_z)
App_vP4 == Lookup(App_wf4, var_P, App_prodP.t)
App_vz4 == Lookup(App_wf4, var_z, var_A)
App_Pz == Rem_App(App_vP4, App_vz4).obj
App_prodF == Rem_Prod_Set(App_vA3, Rem_IsSort(SProp).obj, App_Pz).obj
App_wf5 == Assume(App_prodF, Set, var_f)
App_vA5 == Lookup(App_wf5, var_A, SProp)
App_wf6 == Assume(App_vA5, SProp, var_a)
App_vf6 == Lookup(App_wf6, var_f, App_prodF.t)
App_va6 == Lookup(App_wf6, var_a, var_A)

\* the proofs the client holds when it applies functions to arguments
AppBase ==
    {App_wf0, App_axS, App_wf1, App_vA1, App_wf2, App_ax2, App_prodP, App_wf3,
     App_vA3, App_wf4, App_vP4, App_vz4, App_prodF, App_wf5, App_vA5, App_wf6,
     App_vf6, App_va6}

InitApp ==
    /\ count = 0
    /\ passed = {}
    /\ arg = None
    /\ store = AppBase
    /\ last = None

App_Call ==
    \E wt_t \in store, wt_u \in store :
        StepCap("Rem_App", <<wt_t, wt_u>>, Rem_App(wt_t, wt_u),
                Cardinality(AppBase) + MaxChain)

NextApp == App_Call

SpecApp == InitApp /\ [][NextApp]_vars

\* the judgments [][a : Set] |- fun x:Set => x : forall x:Set, Set and
\* [][a : Set] |- a : Set
IdentityOnSet ==
    Rem_WT("Rem_Lam", Environment(<<>>), Context(<<LocalTyping(var_a, Set)>>),
           Abstract(x, Set, x), Prod(x, Set, Set))
ArgumentInSet ==
    Rem_WT("Rem_Var", Environment(<<>>), Context(<<LocalTyping(var_a, Set)>>),
           var_a, Set)

-----------------------------------------------------------------------------
\* Assuming a variable (typing_rule.py), over two variables.

\* the contexts and variables the client asks x not in Gamma about
AssumContexts == ContextsOver({LocalTyping(x, Set), LocalTyping(y, Set)}, MaxContext)
AssumNotContainVarProofs ==
    Built({Rem_Cont_Not_Contain_Var(v, G) : v \in {x, y}, G \in AssumContexts})

Cont_Not_Contain_Var_Call ==
    \E v \in {x, y}, G \in AssumContexts :
        /\ last' = [op |-> "Rem_Cont_Not_Contain_Var", args |-> <<v, G>>,
                    ok |-> Rem_Cont_Not_Contain_Var(v, G).ok, obj |-> NoObj]
        /\ UNCHANGED <<count, passed, arg, store>>

Local_Assum_Call ==
    \E wt \in store, s_sort \in IsSortProofs, x_notin_Gamma \in AssumNotContainVarProofs :
        Step("Rem_W_Local_Assum", <<wt, s_sort, x_notin_Gamma>>,
             Rem_W_Local_Assum(wt, s_sort, x_notin_Gamma))

NextAssum ==
    \/ W_Empty_Call
    \/ Ax_Set_Call
    \/ Cont_Not_Contain_Var_Call
    \/ Local_Assum_Call

SpecAssum == InitTyping /\ [][NextAssum]_vars

\* C19: W-Local-Assum on wt : E[Gamma] |- T : s, a proof of s' in S and a
\* proof of x not in Gamma' succeeds exactly when s = s' and Gamma = Gamma',
\* and concludes WF(E)[Gamma::(x:T)] with T the term of wt; the proof of
\* x not in Gamma is built exactly when no declaration of Gamma binds x, so
\* the variable assumed is never one that Gamma binds.
LocalAssumExtendsContext ==
    /\ (last.op = "Rem_W_Local_Assum" /\ Rem_type_check(last.args[1], "Rem_WT"))
       => /\ last.ok <=> /\ last.args[1].T = last.args[2].s
                         /\ last.args[1].Gamma = last.args[3].Gamma
          /\ last.ok =>
                /\ last.obj.E = last.args[1].E
                /\ last.obj.Gamma.ls =
                      Append(last.args[1].Gamma.ls,
                             LocalTyping(last.args[3].x, last.args[1].t))
                /\ \A k \in DOMAIN last.args[1].Gamma.ls :
                      last.args[1].Gamma.ls[k].x # last.args[3].x
    /\ last.op = "Rem_Cont_Not_Contain_Var"
       => (last.ok <=> \A k \in DOMAIN last.args[2].ls : last.args[2].ls[k].x # last.args[1])

\* a second variable was assumed in a context that binds the first
SecondVariableAssumed ==
    /\ last.op = "Rem_W_Local_Assum"
    /\ last.ok
    /\ Len(last.obj.Gamma.ls) = 2

-----------------------------------------------------------------------------
\* Conversion of a type along subtyping (conversion_rule.py).

Rem_Ax_Type(wf, i) ==
    IF \/ new_raises("Rem_Ax_Type")
       \/ ~Rem_type_check(wf, "Rem_WF")
       \/ ~Type_i_check(i)
       \/ ~Type_i_check(i + 1)
    THEN Raise
    ELSE Ok(Rem_WT("Rem_Ax_Type", wf.E, wf.Gamma, Type_i(i), Type_i(i + 1)))

\* a conversion that keeps the type of t
Rem_Conv_keeps_type(wt_U, wt_t, subtype) ==
    IF \/ new_raises("Rem_Conv")
       \/ ~Rem_type_check(wt_U, "Rem_WT")
       \/ ~Rem_type_check(wt_t, "Rem_WT")
       \/ ~Rem_type_check(subtype, "Rem_subtyping")
       \/ ~Rem_consistency_check(wt_U.E, wt_t.E)
       \/ ~Rem_consistency_check(wt_U.E, subtype.E)
       \/ ~Rem_consistency_check(wt_U.Gamma, wt_t.Gamma)
       \/ ~Rem_consistency_check(wt_U.Gamma, subtype.Gamma)
       \/ ~Rem_consistency_check(wt_U.t, subtype.t2)
       \/ ~Rem_consistency_check(wt_t.T, subtype.t1)
    THEN Raise
    ELSE Ok(Rem_WT("Rem_Conv", wt_U.E, wt_U.Gamma, wt_t.t, wt_t.T))

\* a Conv that does not compare the type of t with the smaller side of the
\* subtyping proof
Rem_Conv_any_type(wt_U, wt_t, subtype) ==
    IF \/ new_raises("Rem_Conv")
       \/ ~Rem_type_check(wt_U, "Rem_WT")
       \/ ~Rem_type_check(wt_t, "Rem_WT")
       \/ ~Rem_type_check(subtype, "Rem_subtyping")
       \/ ~Rem_consistency_check(wt_U.E, wt_t.E)
       \/ ~Rem_consistency_check(wt_U.E, subtype.E)
       \/ ~Rem_consistency_check(wt_U.Gamma, wt_t.Gamma)
       \/ ~Rem_consistency_check(wt_U.Gamma, subtype.Gamma)
       \/ ~Rem_consistency_check(wt_U.t, subtype.t2)
    THEN Raise
    ELSE Ok(Rem_WT("Rem_Conv", wt_U.E, wt_U.Gamma, wt_t.t, wt_U.t))

Rem_Conv(wt_U, wt_t, subtype) ==
    IF \/ new_raises("Rem_Conv")
       \/ ~Rem_type_check(wt_U, "Rem_WT")
       \/ ~Rem_type_check(wt_t, "Rem_WT")
       \/ ~Rem_type_check(subtype, "Rem_subtyping")
       \/ ~Rem_consistency_check(wt_U.E, wt_t.E)
       \/ ~Rem_consistency_check(wt_U.E, subtype.E)
       \/ ~Rem_consistency_check(wt_U.Gamma, wt_t.Gamma)
       \/ ~Rem_consistency_check(wt_U.Gamma, subtype.Gamma)
       \/ ~Rem_consistency_check(wt_U.t, subtype.t2)
       \/ ~Rem_consistency_check(wt_t.T, subtype.t1)
    THEN Raise
    ELSE Ok(Rem_WT("Rem_Conv", wt_U.E, wt_U.Gamma, wt_t.t, wt_U.t))

\* The proofs the client holds when it converts: typings of Set, Type(1) and
\* Type(2) and subtypings of universes over the empty environment and context,
\* and typings and subtypings over another context and another environment.
Conv_wf0 == Rem_W_Empty.obj
Conv_ax0 == Rem_Ax_Set(Conv_wf0).obj
Conv_axT1 == Rem_Ax_Type(Conv_wf0, 1).obj
Conv_axT2 == Rem_Ax_Type(Conv_wf0, 2).obj
Conv_sub11 == Rem_subtyping_universe(Conv_wf0.E, Conv_wf0.Gamma, 1, 1).obj
Conv_sub12 == Rem_subtyping_universe(Conv_wf0.E, Conv_wf0.Gamma, 1, 2).obj
Conv_wfx == Assume(Conv_ax0, Type_i(1), x)
Conv_axx == Rem_Ax_Set(Conv_wfx).obj
Conv_sub12x == Rem_subtyping_universe(Conv_wfx.E, Conv_wfx.Gamma, 1, 2).obj
Conv_wfE ==
    Rem_W_Global_Def(Conv_ax0, Rem_Env_Not_Contain_Const(c, Conv_wf0.E).obj).obj
Conv_axE == Rem_Ax_Set(Conv_wfE).obj

ConvBase ==
    {Conv_ax0, Conv_axT1, Conv_axT2, Conv_sub11, Conv_sub12, Conv_axx, Conv_sub12x,
     Conv_axE}

InitConvRule ==
    /\ count = 0
    /\ passed = {}
    /\ arg = None
    /\ store = ConvBase
    /\ last = None

Conv_Call ==
    \E wt_U \in store, wt_t \in store, subtype \in store :
        StepCap("Rem_Conv", <<wt_U, wt_t, subtype>>, Rem_Conv(wt_U, wt_t, subtype),
                Cardinality(ConvBase) + MaxChain)

NextConvRule == Conv_Call

SpecConvRule == InitConvRule /\ [][NextConvRule]_vars

\* C20: Conv on proofs of U : s, t : T and T' <= U' succeeds exactly when the
\* three have the same E and the same Gamma, T = T' and U = U'; it then
\* concludes E[Gamma] |- t : U, and otherwise no proof is built.
ConvLiftsTheType ==
    (/\ last.op = "Rem_Conv"
     /\ Rem_type_check(last.args[1], "Rem_WT")
     /\ Rem_type_check(last.args[2], "Rem_WT")
     /\ Rem_type_check(last.args[3], "Rem_subtyping"))
    => /\ last.ok <=> /\ last.args[1].E = last.args[2].E
                      /\ last.args[1].E = last.args[3].E
                      /\ last.args[1].Gamma = last.args[2].Gamma
                      /\ last.args[1].Gamma = last.args[3].Gamma
                      /\ last.args[2].T = last.args[3].t1
                      /\ last.args[1].t = last.args[3].t2
       /\ last.ok => /\ last.obj.E = last.args[1].E
                     /\ last.obj.Gamma = last.args[1].Gamma
                     /\ last.obj.t = last.args[2].t
                     /\ last.obj.T = last.args[1].t
       /\ ~last.ok => last.obj = NoObj

\* Set : Type(1) was converted to Set : Type(2) along Type(1) <= Type(2)
SetLiftedToTypeTwo ==
    /\ last.op = "Rem_Conv"
    /\ last.ok
    /\ last.obj.t = Set
    /\ last.obj.T = Type_i(2)
    /\ last.args[2].T = Type_i(1)

-----------------------------------------------------------------------------
\* Subtyping of products (conversion_rule.py).

Rem_subtyping_lam(convert, subtype) ==
    IF \/ new_raises("Rem_subtyping_lam")
       \/ ~Rem_type_check(convert, "Rem_convertible")
       \/ ~Rem_type_check(subtype, "Rem_subtyping")
       \/ ~Rem_consistency_check(convert.E, subtype.E)
       \/ ~Rem_other_check(~is_empty(subtype.Gamma))
       \/ ~Rem_consistency_check(convert.Gamma, pop(subtype.Gamma).Gamma)
       \/ ~Rem_consistency_check(convert.t1, pop(subtype.Gamma).dec.T)
    THEN Raise
    ELSE LET dec == pop(subtype.Gamma).dec
         IN  Ok(Rem_subtyping("Rem_subtyping_lam", convert.E, convert.Gamma,
                              Prod(dec.x, convert.t1, subtype.t1),
                              Prod(dec.x, convert.t2, subtype.t2)))

\* The proofs the client holds: the reductions of (fun x:Set => x) y and
\* (fun y:Set => y) y to y, the four convertibility proofs between them, and
\* Type(1) <= Type(2) in the empty context and in the contexts that declare z
\* of either redex.
SubLam_red1 ==
    Rem_beta_reduction(Environment(<<>>), Context(<<>>), Apply(Abstract(x, Set, x), y)).obj
SubLam_red2 ==
    Rem_beta_reduction(Environment(<<>>), Context(<<>>), Apply(Abstract(y, Set, y), y)).obj
SubLamBase ==
    {SubLam_red1, SubLam_red2}
    \cup {Rem_convertible(r1, r2, NoObj, 0).obj : r1, r2 \in {SubLam_red1, SubLam_red2}}
    \cup {Rem_subtyping_universe(Environment(<<>>), G, 1, 2).obj :
            G \in {Context(<<>>), Context(<<LocalTyping(Var("z"), SubLam_red1.t1)>>),
                   Context(<<LocalTyping(Var("z"), SubLam_red2.t1)>>)}}

InitSubLam ==
    /\ count = 0
    /\ passed = {}
    /\ arg = None
    /\ store = SubLamBase
    /\ last = None

subtyping_lam_Call ==
    \E convert \in store, subtype \in store :
        StepCap("Rem_subtyping_lam", <<convert, subtype>>,
                Rem_subtyping_lam(convert, subtype), Cardinality(SubLamBase) + MaxChain)

NextSubLam == subtyping_lam_Call

SpecSubLam == InitSubLam /\ [][NextSubLam]_vars

\* C21: subtype-lam on a proof that T and U are convertible, built from
\* reductions of T and of U, and a proof of T' <= U' in Gamma::(x:T0) succeeds
\* only if T0 = T and E and Gamma agree, and concludes
\* forall x:T, T' <= forall x:U, U' in E[Gamma].
SubtypingLamRelatesProducts ==
    (/\ last.op = "Rem_subtyping_lam"
     /\ Rem_type_check(last.args[1], "Rem_convertible")
     /\ Rem_type_check(last.args[2], "Rem_subtyping")
     /\ last.ok)
    => /\ last.args[1].E = last.args[2].E
       /\ ~is_empty(last.args[2].Gamma)
       /\ last.args[1].Gamma = pop(last.args[2].Gamma).Gamma
       /\ pop(last.args[2].Gamma).dec.T = last.args[1].red1.t1
       /\ last.obj.t1 = Prod(pop(last.args[2].Gamma).dec.x, last.args[1].red1.t1,
                             last.args[2].t1)
       /\ last.obj.t2 = Prod(pop(last.args[2].Gamma).dec.x, last.args[1].red2.t1,
                             last.args[2].t2)

-----------------------------------------------------------------------------
\* Local definitions (typing_rule.py).

\* a let whose type is the type of the body as it stands
Rem_Let_without_substitution(wt_outer, wt_inner) ==
    IF \/ new_raises("Rem_Let")
       \/ ~Rem_type_check(wt_outer, "Rem_WT")
       \/ ~Rem_type_check(wt_inner, "Rem_WT")
       \/ ~Rem_other_check(~is_empty(wt_inner.Gamma))
       \/ ~Rem_type_check(pop(wt_inner.Gamma).dec, "LocalDef")
       \/ ~Rem_consistency_check(wt_outer.E, wt_inner.E)
       \/ ~Rem_consistency_check(wt_outer.Gamma, pop(wt_inner.Gamma).Gamma)
       \/ ~Rem_consistency_check(pop(wt_inner.Gamma).dec.t, wt_outer.t)
       \/ ~Rem_consistency_check(wt_outer.T, pop(wt_inner.Gamma).dec.T)
    THEN Raise
    ELSE LET dec == pop(wt_inner.Gamma).dec
         IN  Ok(Rem_WT("Rem_Let", wt_outer.E, wt_outer.Gamma,
                       Let_in(dec.x, dec.t, dec.T, wt_inner.t), wt_inner.T))

Rem_Let(wt_outer, wt_inner) ==
    IF \/ new_raises("Rem_Let")
       \/ ~Rem_type_check(wt_outer, "Rem_WT")
       \/ ~Rem_type_check(wt_inner, "Rem_WT")
       \/ ~Rem_other_check(~is_empty(wt_inner.Gamma))
       \/ ~Rem_type_check(pop(wt_inner.Gamma).dec, "LocalDef")
       \/ ~Rem_consistency_check(wt_outer.E, wt_inner.E)
       \/ ~Rem_consistency_check(wt_outer.Gamma, pop(wt_inner.Gamma).Gamma)
       \/ ~Rem_consistency_check(pop(wt_inner.Gamma).dec.t, wt_outer.t)
       \/ ~Rem_consistency_check(wt_outer.T, pop(wt_inner.Gamma).dec.T)
    THEN Raise
    ELSE LET dec == pop(wt_inner.Gamma).dec
         IN  Ok(Rem_WT("Rem_Let", wt_outer.E, wt_outer.Gamma,
                       Let_in(dec.x, dec.t, dec.T, wt_inner.t),
                       substitute(wt_inner.T, dec.x, dec.t)))

\* the client extends the context of wt by the definition (v := wt.t : wt.T)
Define(wt, v) ==
    Rem_W_Local_Def(wt, Rem_Cont_Not_Contain_Var(v, wt.Gamma).obj).obj

\* The proofs the client holds when it closes definitions: x := a : A over the
\* context of f a : P a, with f x : P x and x : A under it; x := Set : Type(1)
\* over the empty context, with x : Type(1) under it; and outer premises that
\* differ from the definition in E, Gamma, t or T.
Let_wf7 == Define(App_va6, x)
Let_vf7 == Lookup(Let_wf7, var_f, App_prodF.t)
Let_vx7 == Lookup(Let_wf7, x, var_A)
Let_fx == Rem_App(Let_vf7, Let_vx7).obj
Let_vx0 == Lookup(Define(Conv_ax0, x), x, Type_i(1))
Let_SetInType2 == Rem_Conv(Conv_axT2, Conv_ax0, Conv_sub12).obj
LetBase ==
    {App_va6, Let_vx7, Let_fx, Conv_ax0, Let_vx0, App_axS, Let_SetInType2, Conv_axE,
     Conv_axx, App_vA1}

InitLet ==
    /\ count = 0
    /\ passed = {}
    /\ arg = None
    /\ store = LetBase
    /\ last = None

Let_Call ==
    \E wt_outer \in store, wt_inner \in store :
        StepCap("Rem_Let", <<wt_outer, wt_inner>>, Rem_Let(wt_outer, wt_inner),
                Cardinality(LetBase) + MaxChain)

NextLet == Let_Call

SpecLet == InitLet /\ [][NextLet]_vars

\* C22: Let on wt_outer : E[Gamma] |- t : T and wt_inner : E'[Gamma'] |- u : U
\* succeeds exactly when Gamma' is not empty, its last declaration is a
\* definition (x := t' : T') with t' = t and T' = T, the rest of Gamma' is
\* Gamma and E = E'; it concludes E[Gamma] |- let x:=t:T in u : U{x/t}.
LetClosesTheDefinition ==
    (/\ last.op = "Rem_Let"
     /\ Rem_type_check(last.args[1], "Rem_WT")
     /\ Rem_type_check(last.args[2], "Rem_WT"))
    => /\ last.ok <=> /\ Len(last.args[2].Gamma.ls) > 0
                      /\ pop(last.args[2].Gamma).dec.cls = "LocalDef"
                      /\ pop(last.args[2].Gamma).dec.t = last.args[1].t
                      /\ pop(last.args[2].Gamma).dec.T = last.args[1].T
                      /\ pop(last.args[2].Gamma).Gamma = last.args[1].Gamma
                      /\ last.args[2].E = last.args[1].E
       /\ last.ok => /\ last.obj.E = last.args[1].E
                     /\ last.obj.Gamma = last.args[1].Gamma
                     /\ last.obj.t = Let_in(pop(last.args[2].Gamma).dec.x, last.args[1].t,
                                            last.args[1].T, last.args[2].t)
                     /\ last.obj.T = substitute(last.args[2].T,
                                                pop(last.args[2].Gamma).dec.x,
                                                last.args[1].t)

\* let x:=a:A in f x was given the type P a, the type P x of its body with a
\* for x
LetSubstitutedInTheType ==
    /\ last.op = "Rem_Let"
    /\ last.ok
    /\ last.args[2].T = Apply(var_P, x)
    /\ last.obj.T = Apply(var_P, var_a)

-----------------------------------------------------------------------------
\* The binder rules on contexts that end with an assumption or a definition
\* (typing_rule.py).

\* The proofs the client holds: in [A : SProp; a : A] the product
\* forall x:A, A and the one that binds y; over that context extended by the
\* assumption (x : A), by the definition (x := a : A) and by (y : A), the
\* typings of A and of the variable declared last.
Binder_wf1 == Assume(App_axS, Type_i(1), var_A)
Binder_wf2 == Assume(Lookup(Binder_wf1, var_A, SProp), SProp, var_a)
Binder_vA2 == Lookup(Binder_wf2, var_A, SProp)
Binder_va2 == Lookup(Binder_wf2, var_a, var_A)
Binder_wf3 == Assume(Binder_vA2, SProp, x)
Binder_wf3y == Assume(Binder_vA2, SProp, y)
Binder_wf3d == Define(Binder_va2, x)
Binder_vA3 == Lookup(Binder_wf3, var_A, SProp)
Binder_vA3d == Lookup(Binder_wf3d, var_A, SProp)
Binder_prod == Rem_Prod_SProp(Binder_vA2, Rem_IsSort(SProp).obj, Binder_vA3).obj
Binder_prody ==
    Rem_Prod_SProp(Binder_vA2, Rem_IsSort(SProp).obj, Lookup(Binder_wf3y, var_A, SProp)).obj
BinderBase ==
    {Binder_vA2, Binder_va2, Binder_vA3, Binder_vA3d, Binder_prod, Binder_prody,
     Lookup(Binder_wf3, x, var_A), Lookup(Binder_wf3d, x, var_A),
     Lookup(Binder_wf3y, y, var_A)}

InitBinder ==
    /\ count = 0
    /\ passed = {}
    /\ arg = None
    /\ store = BinderBase
    /\ last = None

Binder_Lam_Call ==
    \E wt_outer \in store, wt_inner \in store :
        StepCap("Rem_Lam", <<wt_outer, wt_inner>>, Rem_Lam(wt_outer, wt_inner),
                Cardinality(BinderBase) + MaxChain)

Binder_Prod_Call ==
    \E wt_outer \in store, s_sort \in Built({Rem_IsSort(SProp), Rem_IsSort(Set)}),
       wt_inner \in store :
        \E rule \in {"Rem_Prod_SProp", "Rem_Prod_Prop", "Rem_Prod_Set", "Rem_Prod_Type"} :
            StepCap(rule, <<wt_outer, s_sort, wt_inner>>,
                    CASE rule = "Rem_Prod_SProp" -> Rem_Prod_SProp(wt_outer, s_sort, wt_inner)
                      [] rule = "Rem_Prod_Prop" -> Rem_Prod_Prop(wt_outer, s_sort, wt_inner)
                      [] rule = "Rem_Prod_Set" -> Rem_Prod_Set(wt_outer, s_sort, wt_inner)
                      [] rule = "Rem_Prod_Type" -> Rem_Prod_Type(wt_outer, s_sort, wt_inner),
                    Cardinality(BinderBase) + MaxChain)

NextBinder ==
    \/ Binder_Lam_Call
    \/ Binder_Prod_Call

SpecBinder == InitBinder /\ [][NextBinder]_vars

\* C23: Lam on wt_outer : E[Gamma] |- P : s and wt_inner : E'[Gamma'] |- t : U'
\* succeeds exactly when P is a product forall x:T, U, Gamma' is Gamma extended
\* by the assumption (x : T), U' = U and E = E', all by structural equality;
\* it concludes E[Gamma] |- fun x:T => t : forall x:T, U.
LamAbstractsTheAssumption ==
    (/\ last.op = "Rem_Lam"
     /\ Rem_type_check(last.args[1], "Rem_WT")
     /\ Rem_type_check(last.args[2], "Rem_WT"))
    => /\ last.ok <=> /\ last.args[1].t.cls = "Prod"
                      /\ last.args[2].Gamma =
                            push(last.args[1].Gamma,
                                 LocalTyping(last.args[1].t.x, last.args[1].t.T))
                      /\ last.args[2].T = last.args[1].t.U
                      /\ last.args[2].E = last.args[1].E
       /\ last.ok => /\ last.obj.E = last.args[1].E
                     /\ last.obj.Gamma = last.args[1].Gamma
                     /\ last.obj.t = Abstract(last.args[1].t.x, last.args[1].t.T,
                                              last.args[2].t)
                     /\ last.obj.T = last.args[1].t

\* C29: Prod-SProp, Prod-Prop, Prod-Set, Prod-Type and Lam refuse an inner
\* premise whose context ends with a definition (x := t : T): no product or
\* lambda judgment is built from it.
BindersRefuseDefinitions ==
    (/\ last.op \in {"Rem_Prod_SProp", "Rem_Prod_Prop", "Rem_Prod_Set", "Rem_Prod_Type",
                     "Rem_Lam"}
     /\ Rem_type_check(last.args[Len(last.args)], "Rem_WT")
     /\ ~is_empty(last.args[Len(last.args)].Gamma)
     /\ pop(last.args[Len(last.args)].Gamma).dec.cls = "LocalDef")
    => ~last.ok

-----------------------------------------------------------------------------
(* Transitivity of reduction: src/Rem/coc/conversion_rule.py                  *)

\* a reduce-trans that concludes with the target of its first premise
Rem_reduction_trans_first_target(red1, red2) ==
    IF \/ new_raises("Rem_reduction_trans")
       \/ ~Rem_type_check(red1, "Rem_reduction")
       \/ ~Rem_type_check(red2, "Rem_reduction")
       \/ ~Rem_consistency_check(red1.E, red2.E)
       \/ ~Rem_consistency_check(red1.Gamma, red2.Gamma)
       \/ ~Rem_consistency_check(red1.t2, red2.t1)
    THEN Raise
    ELSE Ok(Rem_reduction("Rem_reduction_trans", red1.E, red1.Gamma, red1.t1, red1.t2))

\* Rem_reduction_trans(red1, red2)
Rem_reduction_trans(red1, red2) ==
    IF \/ new_raises("Rem_reduction_trans")
       \/ ~Rem_type_check(red1, "Rem_reduction")
       \/ ~Rem_type_check(red2, "Rem_reduction")
       \/ ~Rem_consistency_check(red1.E, red2.E)
       \/ ~Rem_consistency_check(red1.Gamma, red2.Gamma)
       \/ ~Rem_consistency_check(red1.t2, red2.t1)
    THEN Raise
    ELSE Ok(Rem_reduction("Rem_reduction_trans", red1.E, red1.Gamma, red1.t1, red2.t2))

\* the identity on Set, bound to x and bound to var_z
Trans_idx == Abstract(x, Set, x)
Trans_idz == Abstract(var_z, Set, var_z)

\* three redexes, each reducing to the next and the last to y; the same
\* redex as the second with another bound variable; the last one in another
\* context and in another environment
Trans_t2 == Apply(Trans_idx, y)
Trans_t1 == Apply(Abstract(x, Set, Apply(Trans_idx, x)), y)
Trans_t0 == Apply(Abstract(x, Set, Apply(Abstract(x, Set, Apply(Trans_idx, x)), x)), y)
TransBase ==
    Built({Rem_beta_reduction(Environment(<<>>), Context(<<>>), t) :
             t \in {Trans_t0, Trans_t1, Trans_t2, Apply(Trans_idz, y)}}
          \cup {Rem_beta_reduction(Environment(<<>>), Context(<<LocalTyping(x, Set)>>),
                                   Trans_t2),
                Rem_beta_reduction(Environment(<<GlobalDef(c, Set, Type_i(1))>>),
                                   Context(<<>>), Trans_t2)})

InitTrans ==
    /\ count = 0
    /\ passed = {}
    /\ arg = None
    /\ store = TransBase
    /\ last = None

\* the client composes two reductions it holds
reduction_trans_Call ==
    \E red1 \in store, red2 \in store :
        StepCap("Rem_reduction_trans", <<red1, red2>>, Rem_reduction_trans(red1, red2),
                Cardinality(TransBase) + MaxChain)

NextTrans == reduction_trans_Call

SpecTrans == InitTrans /\ [][NextTrans]_vars

\* C24: reduce-trans on two reductions succeeds exactly when they have the
\* same environment, the same context and the target of the first is the
\* source of the second, structurally; the proof it builds reduces the source
\* of the first to the target of the second in that environment and context.
ReductionsCompose ==
    (/\ last.op = "Rem_reduction_trans"
     /\ Rem_type_check(last.args[1], "Rem_reduction")
     /\ Rem_type_check(last.args[2], "Rem_reduction"))
    => /\ last.ok <=> /\ last.args[1].E = last.args[2].E
                      /\ last.args[1].Gamma = last.args[2].Gamma
                      /\ last.args[1].t2 = last.args[2].t1
       /\ last.ok => /\ last.obj.E = last.args[1].E
                     /\ last.obj.Gamma = last.args[1].Gamma
                     /\ last.obj.t1 = last.args[1].t1
                     /\ last.obj.t2 = last.args[2].t2

\* a chain of three reductions composed into one, from the first source to y
ChainOfThreeComposed ==
    /\ last.op = "Rem_reduction_trans"
    /\ last.ok
    /\ last.args[1].cls = "Rem_reduction_trans"
    /\ last.args[2].cls = "Rem_beta_reduction"
    /\ last.obj.t1 = Trans_t0
    /\ last.obj.t2 = y

-----------------------------------------------------------------------------
(* Quantum variables: src/qplcomp/qval/qvar.py                                *)

MaxQvls == 3        \* length of the lists of names the client passes to QVar

\* the names of quantum variables the client writes
QNames == {"p", "q", "r"}

\* the loop of QVar.__init__ on the rest of qvls, temp being the names seen:
\* it raises on the first name already in temp
RECURSIVE QVar_loop(_, _)
QVar_loop(qvls, temp) ==
    IF qvls = <<>> THEN Ok([cls |-> "QVar", qvls |-> temp])
    ELSE IF \E k \in DOMAIN temp : temp[k] = Head(qvls) THEN Raise
    ELSE QVar_loop(Tail(qvls), Append(temp, Head(qvls)))

\* a QVar.__init__ that keeps the list it is given
QVar_unchecked(qvls) == Ok([cls |-> "QVar", qvls |-> qvls])

\* QVar(qvls)
QVar(qvls) == QVar_loop(qvls, <<>>)

\* the loop of QVar.__add__ on the rest of the names of other: a name is
\* appended to r unless r has it
RECURSIVE QVar_add_loop(_, _)
QVar_add_loop(r, others) ==
    IF others = <<>> THEN r
    ELSE IF \E k \in DOMAIN r : r[k] = Head(others)
    THEN QVar_add_loop(r, Tail(others))
    ELSE QVar_add_loop(Append(r, Head(others)), Tail(others))

\* self + other
QVar_add(self, other) ==
    IF other.cls # "QVar" THEN Raise
    ELSE QVar(QVar_add_loop(self.qvls, other.qvls))

\* the lists of at most n names
RECURSIVE QNameLists(_)
QNameLists(n) ==
    IF n = 0 THEN {<<>>}
    ELSE QNameLists(n - 1)
         \cup {Append(l, v) : l \in {s \in QNameLists(n - 1) : Len(s) = n - 1}, v \in QNames}

\* the parser's rule qvar, and any other caller of the constructor
QVar_Call ==
    \E qvls \in QNameLists(MaxQvls) :
        StepCap("QVar", <<qvls>>, QVar(qvls), MaxChain + 1)

\* the client adds two quantum variables it holds
QVar_add_Call ==
    \E self \in store, other \in store :
        StepCap("QVar.__add__", <<self, other>>, QVar_add(self, other), MaxChain + 1)

NextQVar ==
    \/ QVar_Call
    \/ QVar_add_Call

SpecQVar == InitBeta /\ [][NextQVar]_vars

\* the names of a list are pairwise distinct
QDistinct(qvls) == \A k, l \in DOMAIN qvls : qvls[k] = qvls[l] => k = l

\* C25: QVar on a list of names raises exactly when a name is repeated and
\* otherwise holds the list; every QVar built by the constructor or by
\* additions holds pairwise distinct names, an addition giving the names of
\* its operands.
QVarNamesDistinct ==
    /\ \A v \in store : QDistinct(v.qvls)
    /\ last.op = "QVar"
       => /\ last.ok <=> QDistinct(last.args[1])
          /\ last.ok => last.obj.qvls = last.args[1]
    /\ last.op = "QVar.__add__"
       => /\ last.ok
          /\ QDistinct(last.obj.qvls)
          /\ {last.obj.qvls[k] : k \in DOMAIN last.obj.qvls}
             = {last.args[1].qvls[k] : k \in DOMAIN last.args[1].qvls}
               \cup {last.args[2].qvls[k] : k \in DOMAIN last.args[2].qvls}

\* [p q] + [q r] is [p q r]
OverlappingQVarsAdded ==
    /\ last.op = "QVar.__add__"
    /\ last.args[1].qvls = <<"p", "q">>
    /\ last.args[2].qvls = <<"q", "r">>
    /\ last.ok
    /\ last.obj.qvls = <<"p", "q", "r">>
    /\ last.obj \in store

-----------------------------------------------------------------------------
(* Names declared once: the rules that extend a context or an environment,   *)
(* src/Rem/coc/typing_rule.py, with the proofs of x not in Gamma and of c    *)
(* not in E of src/Rem/coc/context.py and src/Rem/coc/environment.py          *)

\* Set typed in the empty context, in the environment that defines c, and
\* there in the context that assumes x
Decl_ax0 == Rem_Ax_Set(Rem_W_Empty.obj).obj
Decl_axE == Rem_Ax_Set(Rem_W_Global_Def(Decl_ax0,
                         Rem_Env_Not_Contain_Const(c, Environment(<<>>)).obj).obj).obj
Decl_ax1 == Rem_Ax_Set(Assume(Decl_axE, Type_i(1), x)).obj
WFBase == {Decl_ax0, Decl_axE, Decl_ax1}

InitWF ==
    /\ count = 0
    /\ passed = {}
    /\ arg = None
    /\ store = WFBase
    /\ last = None

\* the proofs of v not in Gamma the client can build for the contexts of the
\* proofs it holds, and the proofs of c not in E for their environments
Decl_NotContainVar == Built({Rem_Cont_Not_Contain_Var(v, p.Gamma) : v \in {x, y}, p \in store})
Decl_NotContainConst ==
    Built({Rem_Env_Not_Contain_Const(k, p.E) : k \in {c, Const("d")}, p \in store})

Decl_Local_Assum_Call ==
    \E wt \in store, x_notin_Gamma \in Decl_NotContainVar :
        StepCap("Rem_W_Local_Assum", <<wt, x_notin_Gamma>>,
                Rem_W_Local_Assum(wt, Rem_IsSort(Type_i(1)).obj, x_notin_Gamma),
                Cardinality(WFBase) + MaxChain)

Decl_Local_Def_Call ==
    \E wt \in store, x_notin_Gamma \in Decl_NotContainVar :
        StepCap("Rem_W_Local_Def", <<wt, x_notin_Gamma>>,
                Rem_W_Local_Def(wt, x_notin_Gamma), Cardinality(WFBase) + MaxChain)

Decl_Global_Def_Call ==
    \E wt \in store, c_notin_E \in Decl_NotContainConst :
        StepCap("Rem_W_Global_Def", <<wt, c_notin_E>>,
                Rem_W_Global_Def(wt, c_notin_E), Cardinality(WFBase) + MaxChain)

Decl_Ax_Set_Call ==
    \E wf \in store :
        StepCap("Rem_Ax_Set", <<wf>>, Rem_Ax_Set(wf), Cardinality(WFBase) + MaxChain)

NextWF ==
    \/ Decl_Local_Assum_Call
    \/ Decl_Local_Def_Call
    \/ Decl_Global_Def_Call
    \/ Decl_Ax_Set_Call

SpecWF == InitWF /\ [][NextWF]_vars

\* the variables declared in Gamma, and the constants declared in E, are
\* pairwise distinct
DeclaredOnce(Gamma, E) ==
    /\ \A k, l \in DOMAIN Gamma.ls : py_eq(Gamma.ls[k].x, Gamma.ls[l].x) => k = l
    /\ \A k, l \in DOMAIN E.ls : py_eq(E.ls[k].c, E.ls[l].c) => k = l

\* C26: in every proof of well-formedness and every typing proof built by
\* the rules from W-Empty, no variable is declared twice in the context and no
\* constant is declared twice in the environment.
NamesDeclaredOnce ==
    \A p \in store :
        (Rem_type_check(p, "Rem_WF") \/ Rem_type_check(p, "Rem_WT"))
        => DeclaredOnce(p.Gamma, p.E)

\* a context of two variables, one assumed and one defined, built in an
\* environment of two constants
TwoVariablesTwoConstants ==
    /\ last.op \in {"Rem_W_Local_Def", "Rem_W_Local_Assum"}
    /\ last.ok
    /\ Len(last.obj.Gamma.ls) = 2
    /\ \E p \in store : Len(p.E.ls) = 2

\* C27: alpha_convertible is reflexive: every term, a let-in whose body
\* mentions its bound variable included, is alpha-convertible to itself.
AlphaConvertibleReflexive ==
    (last.op = "alpha_convertible" /\ arg.kind = "pair" /\ arg.self = arg.other)
    => last.ret

\* the terms a and b have the same constructor at every corresponding position
RECURSIVE SameShape(_, _)
SameShape(a, b) ==
    /\ a.cls = b.cls
    /\ CASE a.cls = "Prod" -> SameShape(a.T, b.T) /\ SameShape(a.U, b.U)
         [] a.cls = "Abstract" -> SameShape(a.T, b.T) /\ SameShape(a.u, b.u)
         [] a.cls = "Apply" -> SameShape(a.t, b.t) /\ SameShape(a.u, b.u)
         [] a.cls = "Let_in" ->
               SameShape(a.t, b.t) /\ SameShape(a.T, b.T) /\ SameShape(a.u, b.u)
         [] OTHER -> TRUE

\* C28: when alpha_convertible returns true the two terms have the same
\* constructor at every corresponding position: a term with a lambda under a
\* binder is not alpha-convertible to the term with a product in its place.
AlphaConvertiblePreservesShape ==
    (last.op = "alpha_convertible" /\ arg.kind = "pair" /\ last.ret)
    => SameShape(arg.self, arg.other)

-----------------------------------------------------------------------------
(* The hierarchy of universes under Ax-Type, the subtyping rules and Conv:   *)
(* src/Rem/coc/typing_rule.py and src/Rem/coc/conversion_rule.py              *)

\* Rem_subtyping_convert(convert)
Rem_subtyping_convert(convert) ==
    IF \/ new_raises("Rem_subtyping_convert")
       \/ ~Rem_type_check(convert, "Rem_convertible")
    THEN Raise
    ELSE Ok(Rem_subtyping("Rem_subtyping_convert", convert.E, convert.Gamma,
                          convert.t1, convert.t2))

\* the empty judgment, Set and Type(1) .. Type(MaxUniverse) typed by their
\* axioms in it, and a proof that two redexes are convertible
UniverseBase ==
    {Rem_W_Empty.obj, Rem_Ax_Set(Rem_W_Empty.obj).obj,
     Rem_convertible(SubLam_red1, SubLam_red2, NoObj, 0).obj}
    \cup {Rem_Ax_Type(Rem_W_Empty.obj, i).obj : i \in 1..MaxUniverse}

InitUniverse ==
    /\ count = 0
    /\ passed = {}
    /\ arg = None
    /\ store = UniverseBase
    /\ last = None

Universe_Ax_Type_Call ==
    \E wf \in store, i \in UniversesIn :
        StepCap("Rem_Ax_Type", <<wf, i>>, Rem_Ax_Type(wf, i),
                Cardinality(UniverseBase) + MaxChain)

Universe_subtyping_universe_Call ==
    \E i \in UniversesIn, j \in UniversesIn :
        StepCap("Rem_subtyping_universe", <<Environment(<<>>), Context(<<>>), i, j>>,
                Rem_subtyping_universe(Environment(<<>>), Context(<<>>), i, j),
                Cardinality(UniverseBase) + MaxChain)

Universe_subtyping_convert_Call ==
    \E convert \in store :
        StepCap("Rem_subtyping_convert", <<convert>>, Rem_subtyping_convert(convert),
                Cardinality(UniverseBase) + MaxChain)

\* the client passes Conv two proofs it holds and a subtyping proof it holds
Universe_Conv_Call ==
    \E wt_U \in store, wt_t \in store,
       subtype \in {s \in store : Rem_type_check(s, "Rem_subtyping")} :
        StepCap("Rem_Conv", <<wt_U, wt_t, subtype>>, Rem_Conv(wt_U, wt_t, subtype),
                Cardinality(UniverseBase) + MaxChain)

NextUniverse ==
    \/ Universe_Ax_Type_Call
    \/ Universe_subtyping_universe_Call
    \/ Universe_subtyping_convert_Call
    \/ Universe_Conv_Call

SpecUniverse == InitUniverse /\ [][NextUniverse]_vars

\* C30: no typing proof built by the rules gives a universe Type(i) a type
\* Type(j) with j <= i, and the universes in the conclusion of an Ax-Type have
\* positive indices; Ax-Type is refused for an index that is not positive.
UniversesNeverInverted ==
    /\ \A p \in store :
          Rem_type_check(p, "Rem_WT")
          => /\ (p.t.cls = "Type_i" /\ p.T.cls = "Type_i") => p.t.i < p.T.i
             /\ p.cls = "Rem_Ax_Type" => 0 < p.t.i /\ 0 < p.T.i
    /\ (last.op = "Rem_Ax_Type" /\ last.args[2] <= 0) => ~last.ok

\* Type(1), of type Type(2) by its axiom, given the type Type(3) by Conv
UniverseLiftedByConv ==
    /\ last.op = "Rem_Conv"
    /\ last.ok
    /\ last.args[2].cls = "Rem_Ax_Type"
    /\ last.obj.t = Type_i(1)
    /\ last.obj.T = Type_i(3)
    /\ last.obj \in store
====
